---- MODULE Spec2Model ----
(***************************************************************************)
(* Task-Kalender (src/src/App.tsx, the Supabase revision, lines 906-3605): *)
(* the task store kept in React state (tasksByDate, categories), the       *)
(* optimistic handlers that mutate it, the remote task table they write    *)
(* to, the fractional sort-key reorder and the single-slot undo toast.     *)
(*                                                                         *)
(* A handler runs synchronously up to its first await.  Everything it     *)
(* reads from React state before or after the await (tasksByDate,          *)
(* selectedISO) is the value of the render that created the handler: the   *)
(* closure.  Functional updaters (setTasksByDate(prev => ...)) see the     *)
(* latest state.  Each in-flight remote call is one record of `pending`,   *)
(* carrying what its continuation captured; a remote call takes effect on  *)
(* the table and returns in one step (Resolve), in any order.              *)
(***************************************************************************)
EXTENDS Integers, Sequences, FiniteSets, TLC

\* ------------------------------------------------------------------ bounds
MaxCmds == 2       \* commands (handler invocations that write) per behaviour
MaxPending == 2    \* remote calls of distinct handler invocations in flight
MaxTasks == 5      \* task rows ever created (ids 1..MaxTasks)
MaxTicks == 1      \* seconds the clock advances
NDates == 2        \* days of the visible range: 1..NDates
NMonths == 2       \* months the calendar can show
Now0 == 10000      \* Math.floor(Date.now() / 1000) at the start

\* ------------------------------------------------------- program constants
Spacing == 1000        \* key spacing of renormalizeGroup and of the boundary cases
RepeatHorizon == 90    \* addTask: days covered by a recurrence
RepeatCap == 30        \* addTask: most recurrences created

NULL == "null"                     \* JavaScript null / SQL NULL
Owner == "u1"                      \* the user id of the account that signs in
CatNames == <<"A", "B">>           \* category names, in localeCompare order
Cats == {CatNames[i] : i \in 1..Len(CatNames)}
Dates == 1..NDates                 \* visible days (ISO dates, as day numbers)

VARIABLES
    tasksByDate,   \* useState<Record<ISODate, DbTask[]>>: day -> list of tasks
    categories,    \* useState<string[]>: the category list
    selectedISO,   \* useState<ISODate>: the selected day
    undoToast,     \* useState<UndoToast | null>: the single undo slot
    timers,        \* live setTimeout handles of undo toasts (by toast id)
    db,            \* the remote table "tasks": a set of rows
    pending,       \* remote calls in flight, in issue order
    now,           \* Math.floor(Date.now() / 1000)
    nextId,        \* next id the table assigns
    nextToast,     \* next undo toast identity
    budget,        \* commands the user may still issue
    userId,        \* useState<string | null>: the signed-in owner, or null
    konfettiTriggeredRef,  \* useRef<string>: <<d>> for the day d, <<>> for ""
    cursorMonth,   \* useState<Date>: the month the calendar shows
    dragRef,       \* useRef<DragPayload | null>: the payload of the drag under way
    created,       \* history: names put into the list by addCategoryFromInput
    toastLog,      \* history: toast id -> its fate and how often its closure ran
    serial,        \* history: the store had the overlapping mutations run one by one
    hist           \* history: what the step just taken completed

vars == <<tasksByDate, categories, selectedISO, undoToast, timers, db, pending,
          now, nextId, nextToast, budget, userId, konfettiTriggeredRef, created, toastLog,
          serial, cursorMonth, dragRef, hist>>

\* --------------------------------------------------------------- helpers
Range(s) == {s[i] : i \in 1..Len(s)}

Get(m, k) == IF k \in DOMAIN m THEN m[k] ELSE <<>>      \* m[k] ?? []

Put(m, k, v) == [x \in (DOMAIN m) \cup {k} |-> IF x = k THEN v ELSE m[x]]

Del(m, k) == [x \in (DOMAIN m) \ {k} |-> m[x]]          \* delete m[k]

MapSeq(s, F(_)) == [i \in 1..Len(s) |-> F(s[i])]

FilterSeq(s, P(_)) == SelectSeq(s, P)

RemoveAt(s, i) == [j \in 1..(Len(s) - 1) |-> IF j < i THEN s[j] ELSE s[j + 1]]

Find(s, id) == CHOOSE i \in 1..Len(s) : s[i].id = id /\ \A j \in 1..(i - 1) : s[j].id # id

Has(s, id) == \E i \in 1..Len(s) : s[i].id = id

AllTasks(m) == UNION {Range(m[d]) : d \in DOMAIN m}

\* one DbTask row
Task(id, date, title, cat, done, prio, so, notes, rep) ==
    [id |-> id, date |-> date, title |-> title, category |-> cat, done |-> done,
     priority |-> prio, sort_order |-> so, notes |-> notes, repeat_every_days |-> rep]

\* ------------------------------------------------- display order (1311-1328)
CatRank(c) == IF c = NULL THEN 0 ELSE CHOOSE i \in 1..Len(CatNames) : CatNames[i] = c

Num(b) == IF b THEN 1 ELSE 0

sortForDisplay(a, b) ==
    LET dDone == Num(a.done) - Num(b.done) IN
    IF dDone # 0 THEN dDone
    ELSE IF b.priority # a.priority THEN b.priority - a.priority
    ELSE IF a.sort_order # b.sort_order THEN a.sort_order - b.sort_order
    ELSE CatRank(a.category) - CatRank(b.category)

\* Array.prototype.sort is stable: x goes after every element not greater than it
InsertSorted(s, x) ==
    LET k == Cardinality({i \in 1..Len(s) : sortForDisplay(s[i], x) <= 0})
    IN  SubSeq(s, 1, k) \o <<x>> \o SubSeq(s, k + 1, Len(s))

RECURSIVE StableSort(_)
StableSort(s) ==
    IF s = <<>> THEN <<>>
    ELSE InsertSorted(StableSort(SubSeq(s, 1, Len(s) - 1)), s[Len(s)])

getSortedDayTasks(tbd, iso) == StableSort(Get(tbd, iso))


\* ------------------------------------------------ loading (995-1014, 1389-1408)
\* rows of one day in the order the query returns them: ascending sort_order,
\* rows with equal sort_order in whatever order the table yields them
RowOrders(rows) ==
    {s \in [1..Cardinality(rows) -> rows] :
        /\ \A i, j \in DOMAIN s : i < j => s[i] # s[j] /\ s[i].sort_order <= s[j].sort_order}

\* 1290-1296: the first and last cell of the month grid; the grids of
\* neighbouring months share their padding days
visibleRange(m) == {m + k : k \in 0..(NDates - 1)}

\* .gte("date", from).lte("date", to), 1397-1398
RangeRows(table, range) == {r \in table : r.date \in range}

VisibleRows(table) == RangeRows(table, visibleRange(1))

\* the results mapTasksByDate can give for the rows of the visible range
mapTasksByDate(rows) ==
    LET days == {r.date : r \in rows}
        of(d) == RowOrders({r \in rows : r.date = d})
    IN  {m \in [days -> UNION {of(d) : d \in days}] : \A d \in days : m[d] \in of(d)}

SortCats(S) == SelectSeq(CatNames, LAMBDA c : c \in S)

uniqueCategoriesFromTasks(tbd) ==
    SortCats({t.category : t \in AllTasks(tbd)} \ {NULL})

ensureCategory(prev, name) ==
    IF name = NULL \/ name \in Range(prev) THEN prev
    ELSE SortCats(Range(prev) \cup {name})

\* ------------------------------------------------------- drag payload (927-929)
NoPayload == [kind |-> "none", taskId |-> 0, fromISO |-> 0]

Payload(kind, taskId, fromISO) == [kind |-> kind, taskId |-> taskId, fromISO |-> fromISO]

\* ------------------------------------------------------- undo toast (1156-1174)
NoToast == [id |-> 0]

\* a showUndoToast that forgets clearTimeout(prev.timer)
ArmTimersKeepsOld(prev, live, id) == live \cup {id}

\* showUndoToast: the timers left alive after arming toast `id`
ArmTimers(prev, live, id) == (live \ {prev.id}) \cup {id}

\* a dismissToast that forgets clearTimeout(prev.timer)
DismissTimersKeepsOld(prev, live) == live

\* dismissToast: the timers left alive
DismissTimers(prev, live) == live \ {prev.id}

ReplacedFate(log, id) ==
    IF id \in DOMAIN log /\ log[id].runs > 0 THEN "replacedInvoked" ELSE "replaced"

LogFate(log, id, fate) ==
    IF id \in DOMAIN log /\ log[id].fate = "armed"
    THEN [log EXCEPT ![id] = [fate |-> fate, runs |-> @.runs, runsAtExit |-> @.runs]]
    ELSE log

\* showUndoToast(message, undo): the slot, the timers and the history after it
showUndoToast(toast) ==
    /\ undoToast' = toast
    /\ timers' = ArmTimers(undoToast, timers, toast.id)
    /\ nextToast' = nextToast + 1
    /\ toastLog' = [x \in (DOMAIN toastLog) \cup {toast.id} |->
                      IF x = toast.id THEN [fate |-> "armed", runs |-> 0, runsAtExit |-> 0]
                      ELSE LogFate(toastLog, undoToast.id,
                                   ReplacedFate(toastLog, undoToast.id))[x]]

\* dismissToast(), called by `fate`: the click on X, or the end of an undo closure
dismissToast(fate) ==
    /\ undoToast' = NoToast
    /\ timers' = DismissTimers(undoToast, timers)
    /\ toastLog' = LogFate(toastLog, undoToast.id, fate)
    /\ UNCHANGED nextToast

\* ------------------------------------------------ state updaters of the handlers
SetDone(list, taskId, v) ==
    MapSeq(list, LAMBDA t : IF t.id = taskId THEN [t EXCEPT !.done = v] ELSE t)

\* toggleTask, 1581-1584
toggleApply(prev, iso, taskId, nextDone) ==
    Put(prev, iso, SetDone(Get(prev, iso), taskId, nextDone))

\* a rollback that writes nextDone again instead of its negation
toggleRollbackSameFlag(prev, iso, taskId, nextDone) ==
    Put(prev, iso, SetDone(Get(prev, iso), taskId, nextDone))

\* toggleTask, 1601-1604
toggleRollback(prev, iso, taskId, nextDone) ==
    Put(prev, iso, SetDone(Get(prev, iso), taskId, ~nextDone))

\* deleteTask, 1615-1621
deleteApply(prev, iso, taskId) ==
    LET next == FilterSeq(Get(prev, iso), LAMBDA t : t.id # taskId)
    IN  IF next = <<>> THEN Del(prev, iso) ELSE Put(prev, iso, next)

\* deleteTask, 1625
deleteRollback(prev, iso, snapshot) == Put(prev, iso, snapshot)

\* saveEditTask, 1679-1685
editApply(prev, iso, taskId, title, cat, prio, notes) ==
    Put(prev, iso, MapSeq(Get(prev, iso), LAMBDA t :
        IF t.id = taskId
        THEN [t EXCEPT !.title = title, !.category = cat, !.priority = prio, !.notes = notes]
        ELSE t))

\* saveEditTask, 1694-1697
editRollback(prev, iso, taskId, before) ==
    Put(prev, iso, MapSeq(Get(prev, iso), LAMBDA t : IF t.id = taskId THEN before ELSE t))

\* deleteTask's undo closure, 1646-1649, and addTask, 1550-1557: append one row
appendRow(prev, row) == Put(prev, row.date, Append(Get(prev, row.date), row))


\* all returned rows appended to the day of the first one
appendRowsToOneDay(prev, rows) ==
    IF rows = <<>> THEN prev
    ELSE Put(prev, Head(rows).date, Get(prev, Head(rows).date) \o rows)

\* addTask, 1550-1557: append the returned rows, each to its own day
RECURSIVE appendRows(_, _)
appendRows(prev, rows) ==
    IF rows = <<>> THEN prev
    ELSE appendRows(appendRow(prev, Head(rows)), Tail(rows))

\* a move that leaves the task in the day it came from
moveApplyKeepsSource(prev, fromISO, toISO, task, newSort) ==
    Put(prev, toISO,
        Append(Get(prev, toISO), [task EXCEPT !.date = toISO, !.sort_order = newSort]))

\* moveTask, 1810-1818
moveApply(prev, fromISO, toISO, task, newSort) ==
    LET nextFrom == FilterSeq(Get(prev, fromISO), LAMBDA t : t.id # task.id)
        nextTo == Append(Get(prev, toISO), [task EXCEPT !.date = toISO, !.sort_order = newSort])
        m == Put(Put(prev, fromISO, nextFrom), toISO, nextTo)
    IN  IF nextFrom = <<>> THEN Del(m, fromISO) ELSE m

\* a cascade that removes the tasks of the category instead of clearing it
deleteCategoryApplyDropsTasks(prev, cat) ==
    [iso \in DOMAIN prev |-> FilterSeq(prev[iso], LAMBDA t : t.category # cat)]

\* deleteCategory, 1853-1859
deleteCategoryApply(prev, cat) ==
    [iso \in DOMAIN prev |->
        MapSeq(prev[iso], LAMBDA t : IF t.category = cat THEN [t EXCEPT !.category = NULL] ELSE t)]

\* ------------------------------------------- order keys (1708-1726, 1728-1798)
InGroup(t, done, priority) == Num(t.done) = Num(done) /\ t.priority = priority

GroupOf(day, done, priority) == FilterSeq(day, LAMBDA t : InGroup(t, done, priority))

\* a renormalization that hands out the keys in reverse display order
renormalizeUpdatesReversed(tbd, iso, done, priority) ==
    LET group == GroupOf(getSortedDayTasks(tbd, iso), done, priority)
    IN  {[id |-> group[i].id, sort_order |-> (Len(group) - i + 1) * Spacing] :
            i \in 1..Len(group)}

\* renormalizeGroup, 1709-1712: the keys (index + 1) * 1000 in display order
renormalizeUpdates(tbd, iso, done, priority) ==
    LET group == GroupOf(getSortedDayTasks(tbd, iso), done, priority)
    IN  {[id |-> group[i].id, sort_order |-> i * Spacing] : i \in 1..Len(group)}

renormalizeApplyOneKey(prev, iso, updates) ==
    Put(prev, iso, MapSeq(Get(prev, iso), LAMBDA t :
        IF \E u \in updates : u.id = t.id /\ \A v \in updates : v.id >= u.id
        THEN [t EXCEPT !.sort_order = (CHOOSE u \in updates : u.id = t.id).sort_order]
        ELSE t))

\* renormalizeGroup, 1714-1721
renormalizeApply(prev, iso, updates) ==
    Put(prev, iso, MapSeq(Get(prev, iso), LAMBDA t :
        IF \E u \in updates : u.id = t.id
        THEN [t EXCEPT !.sort_order = (CHOOSE u \in updates : u.id = t.id).sort_order]
        ELSE t))

reorderApplyAllKeys(prev, iso, taskId, newOrder) ==
    Put(prev, iso, MapSeq(Get(prev, iso), LAMBDA t : [t EXCEPT !.sort_order = newOrder]))

\* applyReorderWithinDay, 1788-1794
reorderApply(prev, iso, taskId, newOrder) ==
    Put(prev, iso, MapSeq(Get(prev, iso), LAMBDA t :
        IF t.id = taskId THEN [t EXCEPT !.sort_order = newOrder] ELSE t))

\* the keys around the insertion point, 1749-1757: <<>> stands for null
KeyAt(list, k) == IF k >= 1 /\ k <= Len(list) THEN <<list[k].sort_order>> ELSE <<>>

Neighbours(group, taskId, overId, pos) ==
    LET groupWithout == FilterSeq(group, LAMBDA t : t.id # taskId)
        baseIdx == Find(groupWithout, overId) - 1
        insertIdx == IF pos = "above" THEN baseIdx ELSE baseIdx + 1
    IN  [prevOrder |-> KeyAt(groupWithout, insertIdx),
         nextOrder |-> KeyAt(groupWithout, insertIdx + 1)]

keyBetweenRoundsUp(prevOrder, nextOrder) ==
    IF prevOrder = <<>> /\ nextOrder = <<>> THEN Spacing
    ELSE IF prevOrder = <<>> THEN nextOrder[1] - Spacing
    ELSE IF nextOrder = <<>> THEN prevOrder[1] + Spacing
    ELSE (prevOrder[1] + nextOrder[1] + 1) \div 2

\* 1760-1762 and 1781/1783 (also 1778-1781): the key between two neighbours
keyBetween(prevOrder, nextOrder) ==
    IF prevOrder = <<>> /\ nextOrder = <<>> THEN Spacing
    ELSE IF prevOrder = <<>> THEN nextOrder[1] - Spacing
    ELSE IF nextOrder = <<>> THEN prevOrder[1] + Spacing
    ELSE (prevOrder[1] + nextOrder[1]) \div 2

\* 1764: no room between the two neighbours
needsRenormalize(prevOrder, nextOrder) ==
    prevOrder # <<>> /\ nextOrder # <<>> /\ nextOrder[1] - prevOrder[1] <= 1

\* applyReorderWithinDay, 1732-1785, on the tasksByDate of the handler's render.
\* After `await renormalizeGroup(...)` the handler calls getSortedDayTasks again
\* (1766), which still reads the tasksByDate of that same render, not the keys
\* renormalizeGroup has just set: day2 is day.
reorderPlan(tbd, iso, taskId, overId, pos) ==
    LET day == getSortedDayTasks(tbd, iso)
        moved == day[Find(day, taskId)]
        group == GroupOf(day, moved.done, moved.priority)
        nb == Neighbours(group, taskId, overId, pos)
        renorm == needsRenormalize(nb.prevOrder, nb.nextOrder)
        day2 == getSortedDayTasks(tbd, iso)
        group2 == GroupOf(day2, moved.done, moved.priority)
        nb2 == Neighbours(group2, taskId, overId, pos)
    IN  [renorm |-> renorm,
         group |-> [done |-> moved.done, priority |-> moved.priority],
         updates |-> IF renorm THEN renormalizeUpdates(tbd, iso, moved.done, moved.priority)
                     ELSE {},
         newOrder |-> IF renorm THEN keyBetween(nb2.prevOrder, nb2.nextOrder)
                      ELSE keyBetween(nb.prevOrder, nb.nextOrder)]

\* an acceptance test without the sameGroup check of 1737-1738
reorderAcceptedAnyGroup(tbd, iso, taskId, overId) ==
    LET day == Get(tbd, iso) IN
    /\ taskId # overId
    /\ Has(day, taskId) /\ Has(day, overId)

\* 1730-1738: the request is accepted
reorderAccepted(tbd, iso, taskId, overId) ==
    LET day == Get(tbd, iso) IN
    /\ taskId # overId
    /\ Has(day, taskId) /\ Has(day, overId)
    /\ LET moved == day[Find(day, taskId)]
           over == day[Find(day, overId)]
       IN  InGroup(over, moved.done, moved.priority)

\* ------------------------------------------------------------ initial state
\* The table as earlier sessions left it (rows added one second apart), loaded.
InitRowsA ==
    { Task(1, 1, "t", "A", FALSE, 1, Now0 - 3, "n", 0),
      Task(2, 1, "t", NULL, FALSE, 1, Now0 - 2, NULL, 0),
      Task(3, 1, "t", "B", FALSE, 1, Now0 - 1, NULL, 0) }

InitRowsB ==
    { Task(1, 1, "t", "A", FALSE, 2, Now0 - 3, "n", 0),
      Task(2, 1, "t", NULL, FALSE, 1, Now0 - 2, NULL, 0) }

\* InitRowsB and a row of the owner on a day outside the visible range
InitRowsC ==
    InitRowsB \cup { Task(3, 0, "t", "A", FALSE, 1, Now0 - 1, NULL, 0) }

\* one day with a partition of three tasks whose keys are drawn from
\* ReorderKeys (equal, adjacent or far apart), and a done task beside it
ReorderKeys == {1000, 1001, 2000}

ReorderTables ==
    { { Task(1, 1, "t", "A", FALSE, 1, k1, NULL, 0),
        Task(2, 1, "t", NULL, FALSE, 1, k2, NULL, 0),
        Task(3, 1, "t", "B", FALSE, 1, k3, NULL, 0),
        Task(4, 1, "t", NULL, TRUE, 1, 1000, NULL, 0) } :
      k1 \in ReorderKeys, k2 \in ReorderKeys, k3 \in ReorderKeys }

\* InitRowsB and a task on day 2
InitRowsD ==
    InitRowsB \cup { Task(3, 2, "t", "B", FALSE, 1, Now0 - 1, NULL, 0) }

NoHist == [ev |-> "none"]

InitFrom(tables, commands) ==
    /\ db \in tables
    /\ tasksByDate \in mapTasksByDate(VisibleRows(db))
    /\ categories = uniqueCategoriesFromTasks(tasksByDate)
    /\ selectedISO = 1
    /\ undoToast = NoToast
    /\ timers = {}
    /\ pending = <<>>
    /\ now = Now0
    /\ nextId = Cardinality(db) + 1
    /\ nextToast = 1
    /\ budget = commands
    /\ userId = Owner
    /\ konfettiTriggeredRef = <<>>
    /\ cursorMonth = 1
    /\ dragRef = NoPayload
    /\ created = {}
    /\ toastLog = <<>>
    /\ serial = [store |-> tasksByDate, n |-> 0, ok |-> FALSE, parts |-> {}, ids |-> {}]
    /\ hist = NoHist

InitWith(commands) == InitFrom({InitRowsA, InitRowsB}, commands)

Init == InitWith(MaxCmds)

\* ------------------------------------------------------------ remote calls
\* the (date, done, priority) partitions a toggle, edit or delete touches
Parts(rec) ==
    IF rec.kind = "toggle"
    THEN {<<rec.iso, d, p>> : d \in BOOLEAN,
                              p \in {t.priority : t \in {x \in Range(Get(rec.before, rec.iso)) :
                                                           x.id = rec.taskId}}}
    ELSE IF rec.kind = "delete"
    THEN {<<rec.iso, rec.deletedTask.done, rec.deletedTask.priority>>}
    ELSE IF rec.kind = "edit"
    THEN {<<rec.iso, rec.beforeTask.done, p>> : p \in {rec.beforeTask.priority, rec.priority}}
    ELSE {}

\* history of the calls that overlap: the first call of a batch starts it
Overlap(rec) ==
    LET plain == rec.kind \in {"toggle", "delete", "edit"}
        fresh == pending = <<>>
    IN  [store |-> IF fresh THEN tasksByDate ELSE serial.store,
         n     |-> IF fresh THEN 1 ELSE serial.n + 1,
         ok    |-> /\ plain
                   /\ fresh \/ (serial.ok /\ Parts(rec) \cap serial.parts = {}
                                          /\ rec.taskId \notin serial.ids),
         parts |-> IF fresh THEN Parts(rec) ELSE serial.parts \cup Parts(rec),
         ids   |-> IF ~plain THEN {} ELSE IF fresh THEN {rec.taskId}
                   ELSE serial.ids \cup {rec.taskId}]

\* a handler issues its first remote call: every call already in flight now
\* overlaps another one
\* `owner` is the userId of the render whose handler or closure makes the
\* call (what .eq("user_id", userId) sends); `session` records who was signed
\* in when the call was made
IssueIn(owner, session, rec) ==
    /\ pending' = Append([i \in 1..Len(pending) |-> [pending[i] EXCEPT !.alone = FALSE]],
                         [owner |-> owner, session |-> session]
                             @@ [rec EXCEPT !.alone = (pending = <<>>)])
    /\ serial' = Overlap(rec)

IssueAs(owner, rec) == IssueIn(owner, userId, rec)

Issue(rec) == IssueAs(userId, rec)

\* the call's mutation has succeeded: F is what it does to a store
Serially(F(_)) == serial' = [serial EXCEPT !.store = F(@)]

CanIssue == Len(pending) < MaxPending

\* every handler starts with `if (!userId) return`; the signed-out screen
\* (2295) shows none of the controls
SignedIn == userId # NULL

CanCommand == CanIssue /\ budget > 0 /\ SignedIn

Done(i) == pending' = RemoveAt(pending, i)

Calls(kind) == {i \in 1..Len(pending) : pending[i].kind = kind}

\* UPDATE ... WHERE id = taskId: the table after the write
dbUpdate(table, taskId, F(_)) == {IF r.id = taskId THEN F(r) ELSE r : r \in table}

\* ------------------------------------------------------------ toggleTask
\* history: this toggle starts while exactly one other call is in flight, a
\* toggle of the same task that started with nothing in flight and with the
\* store and the table agreeing on the task
SecondToggle(taskId) ==
    /\ Len(pending) = 1
    /\ pending[1].kind = "toggle"
    /\ pending[1].taskId = taskId
    /\ pending[1].alone
    /\ pending[1].agreed

\* history: the second of two such toggles returns last, and no command was
\* given since it started
PairReturned(i) ==
    /\ pending[i].second
    /\ Len(pending) = 1
    /\ budget = pending[i].left

\* 1587-1588: the day of the handler's render with the task checked is all done
allDone(dayList, taskId) ==
    LET updated == SetDone(dayList, taskId, TRUE)
    IN  Len(updated) > 0 /\ \A k \in 1..Len(updated) : updated[k].done

\* 1586-1592: setTimeout(triggerKonfetti, 200) is called
konfettiFires(dayList, taskId, nextDone) ==
    nextDone /\ allDone(dayList, taskId) /\ konfettiTriggeredRef # <<selectedISO>>

\* 1590-1596: konfettiTriggeredRef.current after the handler's check
konfettiAfter(dayList, taskId, nextDone) ==
    IF nextDone
    THEN IF allDone(dayList, taskId) /\ konfettiTriggeredRef # <<selectedISO>>
         THEN <<selectedISO>> ELSE konfettiTriggeredRef
    ELSE IF konfettiTriggeredRef = <<selectedISO>> THEN <<>> ELSE konfettiTriggeredRef

ToggleTask(taskId) ==
    /\ CanCommand
    /\ Has(Get(tasksByDate, selectedISO), taskId)
    /\ LET dayList == Get(tasksByDate, selectedISO)
           cur == dayList[Find(dayList, taskId)]
           nextDone == ~cur.done
       IN  /\ tasksByDate' = toggleApply(tasksByDate, selectedISO, taskId, nextDone)
           /\ Issue([kind |-> "toggle", taskId |-> taskId, iso |-> selectedISO,
                     nextDone |-> nextDone, before |-> tasksByDate, alone |-> TRUE,
                     agreed |-> \E r \in db : r.id = taskId /\ r.done = cur.done,
                     second |-> SecondToggle(taskId), left |-> budget - 1])
           /\ konfettiTriggeredRef' = konfettiAfter(dayList, taskId, nextDone)
           /\ hist' = [ev |-> "toggleIssued", iso |-> selectedISO, taskId |-> taskId,
                       nextDone |-> nextDone,
                       konfetti |-> konfettiFires(dayList, taskId, nextDone),
                       refBefore |-> konfettiTriggeredRef]
    /\ budget' = budget - 1
    /\ UNCHANGED <<userId, created, cursorMonth, dragRef>>
    /\ UNCHANGED <<categories, selectedISO, undoToast, timers, db, now, nextId,
                   nextToast, toastLog>>

ToggleOk(i) ==
    /\ i \in Calls("toggle")
    /\ db' = dbUpdate(db, pending[i].taskId, LAMBDA r : [r EXCEPT !.done = pending[i].nextDone])
    /\ Done(i)
    /\ hist' = IF PairReturned(i)
               THEN [ev |-> "toggled", taskId |-> pending[i].taskId, iso |-> pending[i].iso,
                     twice |-> TRUE]
               ELSE NoHist
    /\ UNCHANGED <<tasksByDate, categories, selectedISO, undoToast, timers, now, nextId,
                   nextToast, budget, toastLog>>
    /\ UNCHANGED <<userId, created, konfettiTriggeredRef, cursorMonth, dragRef>>
    /\ Serially(LAMBDA m : toggleApply(m, pending[i].iso, pending[i].taskId, pending[i].nextDone))

ToggleFail(i) ==
    /\ i \in Calls("toggle")
    /\ tasksByDate' = toggleRollback(tasksByDate, pending[i].iso, pending[i].taskId,
                                     pending[i].nextDone)
    /\ Done(i)
    /\ hist' = [ev |-> "rolledBack", kind |-> "toggle", before |-> pending[i].before,
                alone |-> pending[i].alone, taskId |-> pending[i].taskId,
                iso |-> pending[i].iso, twice |-> PairReturned(i)]
    /\ UNCHANGED <<categories, selectedISO, undoToast, timers, db, now, nextId,
                   nextToast, budget, toastLog>>
    /\ UNCHANGED <<serial, userId, created, konfettiTriggeredRef, cursorMonth, dragRef>>

\* ------------------------------------------------------------ deleteTask
DeleteTask(taskId) ==
    /\ CanCommand
    /\ Has(Get(tasksByDate, selectedISO), taskId)
    /\ LET snapshot == Get(tasksByDate, selectedISO)
           deletedTask == snapshot[Find(snapshot, taskId)]
       IN  /\ tasksByDate' = deleteApply(tasksByDate, selectedISO, taskId)
           /\ Issue([kind |-> "delete", taskId |-> taskId, iso |-> selectedISO,
                     snapshot |-> snapshot, deletedTask |-> deletedTask,
                     before |-> tasksByDate, alone |-> TRUE])
    /\ budget' = budget - 1
    /\ UNCHANGED <<userId, created, konfettiTriggeredRef, cursorMonth, dragRef>>
    /\ hist' = NoHist
    /\ UNCHANGED <<categories, selectedISO, undoToast, timers, db, now, nextId,
                   nextToast, toastLog>>

DeleteOk(i) ==
    /\ i \in Calls("delete")
    /\ db' = {r \in db : r.id # pending[i].taskId}
    /\ showUndoToast([id |-> nextToast, kind |-> "task", owner |-> pending[i].owner,
                      deletedTask |-> pending[i].deletedTask])
    /\ Done(i)
    /\ hist' = NoHist
    /\ UNCHANGED <<tasksByDate, categories, selectedISO, now, nextId, budget>>
    /\ UNCHANGED <<userId, created, konfettiTriggeredRef, cursorMonth, dragRef>>
    /\ Serially(LAMBDA m : deleteApply(m, pending[i].iso, pending[i].taskId))

DeleteFail(i) ==
    /\ i \in Calls("delete")
    /\ tasksByDate' = deleteRollback(tasksByDate, pending[i].iso, pending[i].snapshot)
    /\ Done(i)
    /\ hist' = [ev |-> "rolledBack", kind |-> "delete", before |-> pending[i].before,
                alone |-> pending[i].alone]
    /\ UNCHANGED <<categories, selectedISO, undoToast, timers, db, now, nextId,
                   nextToast, budget, toastLog>>
    /\ UNCHANGED <<serial, userId, created, konfettiTriggeredRef, cursorMonth, dragRef>>

\* ------------------------------------------------------------ saveEditTask
EditTitles == {"u"}
EditCats == {"B"}
EditNotes == {"n"}

SaveEditTask(taskId, title, cat, highPriority, notes) ==
    /\ CanCommand
    /\ Has(Get(tasksByDate, selectedISO), taskId)
    /\ LET list == Get(tasksByDate, selectedISO)
           before == list[Find(list, taskId)]
           nextPriority == IF highPriority THEN 2 ELSE 1
       IN  /\ tasksByDate' = editApply(tasksByDate, selectedISO, taskId, title, cat,
                                       nextPriority, notes)
           /\ Issue([kind |-> "edit", taskId |-> taskId, iso |-> selectedISO,
                     title |-> title, category |-> cat, priority |-> nextPriority,
                     notes |-> notes, beforeTask |-> before,
                     before |-> tasksByDate, alone |-> TRUE])
    /\ categories' = ensureCategory(categories, cat)
    /\ budget' = budget - 1
    /\ UNCHANGED <<userId, created, konfettiTriggeredRef, cursorMonth, dragRef>>
    /\ hist' = NoHist
    /\ UNCHANGED <<selectedISO, undoToast, timers, db, now, nextId, nextToast, toastLog>>

EditOk(i) ==
    /\ i \in Calls("edit")
    /\ db' = dbUpdate(db, pending[i].taskId, LAMBDA r :
                [r EXCEPT !.title = pending[i].title, !.category = pending[i].category,
                          !.priority = pending[i].priority, !.notes = pending[i].notes])
    /\ Done(i)
    /\ hist' = NoHist
    /\ UNCHANGED <<tasksByDate, categories, selectedISO, undoToast, timers, now, nextId,
                   nextToast, budget, toastLog>>
    /\ UNCHANGED <<userId, created, konfettiTriggeredRef, cursorMonth, dragRef>>
    /\ Serially(LAMBDA m : editApply(m, pending[i].iso, pending[i].taskId, pending[i].title,
                                      pending[i].category, pending[i].priority, pending[i].notes))

EditFail(i) ==
    /\ i \in Calls("edit")
    /\ tasksByDate' = editRollback(tasksByDate, pending[i].iso, pending[i].taskId,
                                   pending[i].beforeTask)
    /\ Done(i)
    /\ hist' = [ev |-> "rolledBack", kind |-> "edit", before |-> pending[i].before,
                alone |-> pending[i].alone]
    /\ UNCHANGED <<categories, selectedISO, undoToast, timers, db, now, nextId,
                   nextToast, budget, toastLog>>
    /\ UNCHANGED <<serial, userId, created, konfettiTriggeredRef, cursorMonth, dragRef>>


\* ------------------------------------------------------------ undo toast
RanOnce(log, id) == [log EXCEPT ![id].runs = @ + 1]

\* the "Rueckgaengig" button, 3588: undoToast.undo() of a deleted task, 1630-1643
UndoClickTask ==
    /\ CanCommand
    /\ undoToast # NoToast
    /\ undoToast.kind = "task"
    /\ toastLog' = RanOnce(toastLog, undoToast.id)
    /\ IssueAs(undoToast.owner,
               [kind |-> "undoInsert", toast |-> undoToast.id,
                deletedTask |-> undoToast.deletedTask, before |-> tasksByDate,
                alone |-> TRUE])
    /\ budget' = budget - 1
    /\ UNCHANGED <<userId, created, konfettiTriggeredRef, cursorMonth, dragRef>>
    /\ hist' = NoHist
    /\ UNCHANGED <<tasksByDate, categories, selectedISO, undoToast, timers, db, now,
                   nextId, nextToast>>

\* the row the table returns for the undo's insert: the columns the insert
\* names (1634-1640); notes and repeat_every_days are not among them
undoInsertRow(id, deletedTask) ==
    Task(id, deletedTask.date, deletedTask.title, deletedTask.category, deletedTask.done,
         deletedTask.priority, deletedTask.sort_order, NULL, 0)

UndoInsertOk(i) ==
    /\ i \in Calls("undoInsert")
    /\ nextId <= MaxTasks
    /\ LET row == undoInsertRow(nextId, pending[i].deletedTask)
       IN  /\ db' = db \cup {row}
           /\ tasksByDate' = appendRow(tasksByDate, row)
           /\ hist' = [ev |-> "undone", deletedTask |-> pending[i].deletedTask,
                       row |-> row]
    /\ nextId' = nextId + 1
    /\ dismissToast("completed")
    /\ Done(i)
    /\ UNCHANGED <<categories, selectedISO, now, budget>>
    /\ UNCHANGED <<serial, userId, created, konfettiTriggeredRef, cursorMonth, dragRef>>

UndoInsertFail(i) ==
    /\ i \in Calls("undoInsert")
    /\ dismissToast("completed")
    /\ Done(i)
    /\ hist' = NoHist
    /\ UNCHANGED <<tasksByDate, categories, selectedISO, db, now, nextId, budget>>
    /\ UNCHANGED <<serial, userId, created, konfettiTriggeredRef, cursorMonth, dragRef>>

\* the X button of the toast, 3594
DismissClick ==
    /\ SignedIn
    /\ undoToast # NoToast
    /\ dismissToast("dismissed")
    /\ hist' = NoHist
    /\ UNCHANGED <<tasksByDate, categories, selectedISO, db, pending, now, nextId, budget>>
    /\ UNCHANGED <<serial, userId, created, konfettiTriggeredRef, cursorMonth, dragRef>>

\* a timeout callback that leaves the slot as it is
TimerFireKeepsSlot(t) ==
    /\ t \in timers
    /\ timers' = timers \ {t}
    /\ hist' = NoHist
    /\ UNCHANGED <<tasksByDate, categories, selectedISO, db, pending, now, nextId,
                   nextToast, budget, undoToast, toastLog>>
    /\ UNCHANGED <<serial, userId, created, konfettiTriggeredRef, cursorMonth, dragRef>>

\* the timeout callback of toast t, 1165: setUndoToast(null)
TimerFire(t) ==
    /\ t \in timers
    /\ undoToast' = NoToast
    /\ timers' = timers \ {t}
    /\ toastLog' = LogFate(toastLog, undoToast.id, "timeout")
    /\ hist' = NoHist
    /\ UNCHANGED <<tasksByDate, categories, selectedISO, db, pending, now, nextId,
                   nextToast, budget>>
    /\ UNCHANGED <<serial, userId, created, konfettiTriggeredRef, cursorMonth, dragRef>>

\* ------------------------------------------------------------ loadVisibleTasks
LoadReturned(rec, loaded) ==
    [ev |-> "failureHandled", kind |-> rec.origin, loaded |-> loaded,
     before |-> rec.before, alone |-> rec.alone, dates |-> rec.dates,
     atIssue |-> rec.atIssue, catsAtIssue |-> rec.catsAtIssue]

\* 1402-1407: the response of the range query replaces the store and the list
LoadOk(i) ==
    /\ i \in Calls("load")
    /\ tasksByDate' \in mapTasksByDate(RangeRows(db, pending[i].range))
    /\ categories' = uniqueCategoriesFromTasks(tasksByDate')
    /\ Done(i)
    /\ hist' = LoadReturned(pending[i], TRUE)
    /\ UNCHANGED <<selectedISO, undoToast, timers, db, now, nextId, nextToast, budget,
                   toastLog>>
    /\ UNCHANGED <<serial, userId, created, konfettiTriggeredRef, cursorMonth, dragRef>>

\* a failed load that empties the store and the list
LoadFailClearsStore(i) ==
    /\ i \in Calls("load")
    /\ Done(i)
    /\ hist' = LoadReturned(pending[i], FALSE)
    /\ tasksByDate' = <<>>
    /\ categories' = <<>>
    /\ UNCHANGED <<selectedISO, undoToast, timers, db, now,
                   nextId, nextToast, budget, toastLog>>
    /\ UNCHANGED <<serial, userId, created, konfettiTriggeredRef, cursorMonth, dragRef>>

\* 1402: if (error) return
LoadFail(i) ==
    /\ i \in Calls("load")
    /\ Done(i)
    /\ hist' = LoadReturned(pending[i], FALSE)
    /\ UNCHANGED <<tasksByDate, categories, selectedISO, undoToast, timers, db, now,
                   nextId, nextToast, budget, toastLog>>
    /\ UNCHANGED <<serial, userId, created, konfettiTriggeredRef, cursorMonth, dragRef>>

\* `if (error) loadVisibleTasks()` of call i (1797, 1826)
ReloadAfter(i, dates) ==
    pending' = [pending EXCEPT ![i] = [kind |-> "load", origin |-> pending[i].kind,
                                       before |-> pending[i].before,
                                       alone |-> pending[i].alone, dates |-> dates,
                                       range |-> visibleRange(cursorMonth),
                                       atIssue |-> tasksByDate,
                                       catsAtIssue |-> categories,
                                       owner |-> pending[i].owner, session |-> userId]]

\* ------------------------------------------------------------ addTask
AddRepeats == {0, RepeatHorizon}
AddCats == {NULL, "B"}
AddPriorities == {FALSE}

Min(a, b) == IF a <= b THEN a ELSE b

addInsertsNoCap(iso, cat, highPriority, repeatDays, clock) ==
    LET maxRepeats == IF repeatDays > 0 THEN RepeatHorizon \div repeatDays ELSE 0
    IN  [k \in 1..(maxRepeats + 1) |->
            Task(0, iso + repeatDays * (k - 1), "t", cat, FALSE,
                 IF highPriority THEN 2 ELSE 1, clock + (k - 1), NULL, repeatDays)]

\* 1520-1540: the rows to insert; a draft has no id yet
addInserts(iso, cat, highPriority, repeatDays, clock) ==
    LET maxRepeats == IF repeatDays > 0
                      THEN Min(RepeatHorizon \div repeatDays, RepeatCap) ELSE 0
    IN  [k \in 1..(maxRepeats + 1) |->
            Task(0, iso + repeatDays * (k - 1), "t", cat, FALSE,
                 IF highPriority THEN 2 ELSE 1, clock + (k - 1), NULL, repeatDays)]

AddTask(cat, highPriority, repeatDays) ==
    /\ CanCommand
    /\ categories' = ensureCategory(categories, cat)
    /\ Issue([kind |-> "add",
              inserts |-> addInserts(selectedISO, cat, highPriority, repeatDays, now),
              iso |-> selectedISO, repeatDays |-> repeatDays,
              before |-> tasksByDate, alone |-> TRUE])
    /\ budget' = budget - 1
    /\ UNCHANGED <<userId, created, konfettiTriggeredRef, cursorMonth, dragRef>>
    /\ hist' = [ev |-> "addIssued", iso |-> selectedISO, repeatDays |-> repeatDays,
                category |-> cat, highPriority |-> highPriority]
    /\ UNCHANGED <<tasksByDate, selectedISO, undoToast, timers, db, now, nextId,
                   nextToast, toastLog>>

AddOk(i) ==
    /\ i \in Calls("add")
    /\ LET inserts == pending[i].inserts
           rows == [k \in 1..Len(inserts) |-> [inserts[k] EXCEPT !.id = nextId + k - 1]]
       IN  /\ nextId + Len(inserts) - 1 <= MaxTasks
           /\ db' = db \cup Range(rows)
           /\ tasksByDate' = appendRows(tasksByDate, rows)
           /\ nextId' = nextId + Len(inserts)
           /\ hist' = [ev |-> "added", rows |-> Range(rows), alone |-> pending[i].alone,
                       iso |-> pending[i].iso, repeatDays |-> pending[i].repeatDays,
                       before |-> tasksByDate, dbBefore |-> db]
    /\ Done(i)
    /\ UNCHANGED <<categories, selectedISO, undoToast, timers, now, nextToast, budget,
                   toastLog>>
    /\ UNCHANGED <<serial, userId, created, konfettiTriggeredRef, cursorMonth, dragRef>>

AddFail(i) ==
    /\ i \in Calls("add")
    /\ Done(i)
    /\ hist' = NoHist
    /\ UNCHANGED <<tasksByDate, categories, selectedISO, undoToast, timers, db, now,
                   nextId, nextToast, budget, toastLog>>
    /\ UNCHANGED <<serial, userId, created, konfettiTriggeredRef, cursorMonth, dragRef>>

\* ------------------------------------------------------------ applyReorderWithinDay
Reordered(rec) ==
    [ev |-> "reordered", iso |-> rec.iso, taskId |-> rec.taskId, overId |-> rec.overId,
     pos |-> rec.pos, renorm |-> rec.renorm, alone |-> rec.alone]

\* the request needs no renormalization: key set locally, one write issued
applyReorderKey(taskId, overId, pos) ==
    /\ CanCommand
    /\ reorderAccepted(tasksByDate, selectedISO, taskId, overId)
    /\ LET plan == reorderPlan(tasksByDate, selectedISO, taskId, overId, pos)
           rec == [kind |-> "reorder", taskId |-> taskId, overId |-> overId, pos |-> pos,
                   iso |-> selectedISO, newOrder |-> plan.newOrder, renorm |-> FALSE,
                   before |-> tasksByDate, alone |-> (pending = <<>>)]
       IN  /\ ~plan.renorm
           /\ tasksByDate' = reorderApply(tasksByDate, selectedISO, taskId, plan.newOrder)
           /\ Issue(rec)
           /\ hist' = Reordered(rec)
    /\ budget' = budget - 1
    /\ UNCHANGED <<userId, created, konfettiTriggeredRef, cursorMonth>>
    /\ UNCHANGED <<categories, selectedISO, undoToast, timers, db, now, nextId,
                   nextToast, toastLog>>

ReorderTask(taskId, overId, pos) ==
    applyReorderKey(taskId, overId, pos) /\ UNCHANGED dragRef

\* 1729-1738: the request is not accepted; the handler returns
applyReorderIgnored(taskId, overId, pos) ==
    /\ budget > 0
    /\ ~reorderAccepted(tasksByDate, selectedISO, taskId, overId)
    /\ budget' = budget - 1
    /\ hist' = [ev |-> "reorderIgnored", taskId |-> taskId, overId |-> overId,
                iso |-> selectedISO, before |-> tasksByDate, pendingBefore |-> pending,
                dbBefore |-> db]
    /\ UNCHANGED <<tasksByDate, categories, selectedISO, undoToast, timers, db, pending,
                   now, nextId, nextToast, toastLog>>
    /\ UNCHANGED <<serial, userId, created, konfettiTriggeredRef, cursorMonth>>

ReorderIgnored(taskId, overId, pos) ==
    applyReorderIgnored(taskId, overId, pos) /\ UNCHANGED dragRef

\* the request renormalizes: renormalizeGroup sets the keys locally and issues
\* one write per task of the group; the handler waits for all of them
applyReorderRenormalize(taskId, overId, pos) ==
    /\ CanCommand
    /\ reorderAccepted(tasksByDate, selectedISO, taskId, overId)
    /\ LET plan == reorderPlan(tasksByDate, selectedISO, taskId, overId, pos)
       IN  /\ plan.renorm
           /\ tasksByDate' = renormalizeApply(tasksByDate, selectedISO, plan.updates)
           /\ Issue([kind |-> "renorm", taskId |-> taskId, overId |-> overId, pos |-> pos,
                     iso |-> selectedISO, newOrder |-> plan.newOrder, renorm |-> TRUE,
                     writes |-> plan.updates, before |-> tasksByDate, alone |-> TRUE])
           /\ hist' = [ev |-> "renormalized", iso |-> selectedISO, group |-> plan.group,
                       before |-> tasksByDate]
    /\ budget' = budget - 1
    /\ UNCHANGED <<userId, created, konfettiTriggeredRef, cursorMonth>>
    /\ UNCHANGED <<categories, selectedISO, undoToast, timers, db, now, nextId,
                   nextToast, toastLog>>

ReorderRenormalize(taskId, overId, pos) ==
    applyReorderRenormalize(taskId, overId, pos) /\ UNCHANGED dragRef

\* one write of the batch returns; after the last one (Promise.all, 1723) the
\* handler sets the moved task's key and issues its own write (1788-1796)
RenormWriteReturns(i, u) ==
    LET rec == pending[i]
        left == rec.writes \ {u}
    IN  IF left # {}
        THEN /\ pending' = [pending EXCEPT ![i].writes = left]
             /\ hist' = NoHist
             /\ UNCHANGED tasksByDate
        ELSE /\ tasksByDate' = reorderApply(tasksByDate, rec.iso, rec.taskId, rec.newOrder)
             /\ pending' = [pending EXCEPT ![i] =
                    [kind |-> "reorder", taskId |-> rec.taskId, overId |-> rec.overId,
                     pos |-> rec.pos, iso |-> rec.iso, newOrder |-> rec.newOrder,
                     renorm |-> TRUE, before |-> rec.before, alone |-> rec.alone,
                     owner |-> rec.owner, session |-> userId]]
             /\ hist' = Reordered(rec)

RenormWriteOk(i, u) ==
    /\ i \in Calls("renorm")
    /\ u \in pending[i].writes
    /\ db' = dbUpdate(db, u.id, LAMBDA r : [r EXCEPT !.sort_order = u.sort_order])
    /\ RenormWriteReturns(i, u)
    /\ UNCHANGED <<categories, selectedISO, undoToast, timers, now, nextId, nextToast,
                   budget, toastLog>>
    /\ UNCHANGED <<serial, userId, created, konfettiTriggeredRef, cursorMonth, dragRef>>

RenormWriteFail(i, u) ==
    /\ i \in Calls("renorm")
    /\ u \in pending[i].writes
    /\ RenormWriteReturns(i, u)
    /\ UNCHANGED <<categories, selectedISO, undoToast, timers, db, now, nextId, nextToast,
                   budget, toastLog>>
    /\ UNCHANGED <<serial, userId, created, konfettiTriggeredRef, cursorMonth, dragRef>>

ReorderOk(i) ==
    /\ i \in Calls("reorder")
    /\ db' = dbUpdate(db, pending[i].taskId,
                      LAMBDA r : [r EXCEPT !.sort_order = pending[i].newOrder])
    /\ Done(i)
    /\ hist' = NoHist
    /\ UNCHANGED <<tasksByDate, categories, selectedISO, undoToast, timers, now, nextId,
                   nextToast, budget, toastLog>>
    /\ UNCHANGED <<serial, userId, created, konfettiTriggeredRef, cursorMonth, dragRef>>

ReorderFail(i) ==
    /\ i \in Calls("reorder")
    /\ ReloadAfter(i, {pending[i].iso})
    /\ hist' = NoHist
    /\ UNCHANGED <<tasksByDate, categories, selectedISO, undoToast, timers, db, now,
                   nextId, nextToast, budget, toastLog>>
    /\ UNCHANGED <<serial, userId, created, konfettiTriggeredRef, cursorMonth, dragRef>>

\* ------------------------------------------------------------ moveTask
\* a task row of the selected day dropped on the calendar cell toISO (2591)
moveTaskAccepted(fromISO, toISO, taskId) ==
    /\ CanCommand
    /\ toISO \in Dates /\ toISO # fromISO
    /\ Has(Get(tasksByDate, fromISO), taskId)
    /\ LET fromList == Get(tasksByDate, fromISO)
           task == fromList[Find(fromList, taskId)]
           newSort == now
       IN  /\ tasksByDate' = moveApply(tasksByDate, fromISO, toISO, task, newSort)
           /\ Issue([kind |-> "move", taskId |-> taskId, fromISO |-> fromISO,
                     toISO |-> toISO, newSort |-> newSort,
                     first |-> IF hist.ev = "moved" THEN [hist EXCEPT !.first = NoHist]
                               ELSE NoHist,
                     before |-> tasksByDate, alone |-> TRUE])
    /\ budget' = budget - 1
    /\ UNCHANGED <<userId, created, konfettiTriggeredRef, cursorMonth>>
    /\ hist' = NoHist
    /\ UNCHANGED <<categories, selectedISO, undoToast, timers, db, now, nextId,
                   nextToast, toastLog>>

MoveTask(taskId, toISO) ==
    moveTaskAccepted(selectedISO, toISO, taskId) /\ UNCHANGED dragRef

MoveOk(i) ==
    /\ i \in Calls("move")
    /\ db' = dbUpdate(db, pending[i].taskId, LAMBDA r :
                [r EXCEPT !.date = pending[i].toISO, !.sort_order = pending[i].newSort])
    /\ Done(i)
    /\ hist' = [ev |-> "moved", taskId |-> pending[i].taskId,
                fromISO |-> pending[i].fromISO, toISO |-> pending[i].toISO,
                before |-> pending[i].before, alone |-> pending[i].alone,
                first |-> pending[i].first]
    /\ UNCHANGED <<tasksByDate, categories, selectedISO, undoToast, timers, now, nextId,
                   nextToast, budget, toastLog>>
    /\ UNCHANGED <<serial, userId, created, konfettiTriggeredRef, cursorMonth, dragRef>>

MoveFail(i) ==
    /\ i \in Calls("move")
    /\ ReloadAfter(i, {pending[i].fromISO, pending[i].toISO})
    /\ hist' = NoHist
    /\ UNCHANGED <<tasksByDate, categories, selectedISO, undoToast, timers, db, now,
                   nextId, nextToast, budget, toastLog>>
    /\ UNCHANGED <<serial, userId, created, konfettiTriggeredRef, cursorMonth, dragRef>>

\* ------------------------------------------------------------ deleteCategory
\* 1842-1847: ids of the tasks of the handler's render that have the category
affectedTaskIds(tbd, cat) == {t.id : t \in {x \in AllTasks(tbd) : x.category = cat}}

\* the category buttons list the names of `categories` (3247)
DeleteCategory(cat) ==
    /\ CanCommand
    /\ cat \in Range(categories)
    /\ Issue([kind |-> "delCat", cat |-> cat, ids |-> affectedTaskIds(tasksByDate, cat),
              before |-> tasksByDate, cats |-> categories, alone |-> TRUE])
    /\ budget' = budget - 1
    /\ created' = created \ {cat}
    /\ hist' = NoHist
    /\ UNCHANGED <<tasksByDate, categories, selectedISO, undoToast, timers, db, now,
                   nextId, nextToast, toastLog, userId, konfettiTriggeredRef, cursorMonth, dragRef>>

\* .update({ category: null }).eq("category", cat), 1850: the table after it
dbClearCategory(table, cat) ==
    {IF r.category = cat THEN [r EXCEPT !.category = NULL] ELSE r : r \in table}

\* 1853-1877, run when the bulk update has returned, whatever it returned
DeleteCategoryLocal(i, ok) ==
    /\ tasksByDate' = deleteCategoryApply(tasksByDate, pending[i].cat)
    /\ categories' = SelectSeq(categories, LAMBDA c : c # pending[i].cat)
    /\ showUndoToast([id |-> nextToast, kind |-> "cat", cat |-> pending[i].cat,
                      owner |-> pending[i].owner,
                      ids |-> pending[i].ids,
                      cleared |-> {r.id : r \in {x \in db : x.category = pending[i].cat /\ ok}},
                      clearedLocal |-> affectedTaskIds(tasksByDate, pending[i].cat),
                      after |-> tasksByDate', dbAfter |-> db'])
    /\ Done(i)
    /\ hist' = [ev |-> "catDeleted", cat |-> pending[i].cat, ok |-> ok,
                alone |-> pending[i].alone,
                before |-> pending[i].before, cats |-> pending[i].cats,
                prev |-> tasksByDate, prevCats |-> categories, prevDb |-> db]

DelCatOk(i) ==
    /\ i \in Calls("delCat")
    /\ db' = dbClearCategory(db, pending[i].cat)
    /\ DeleteCategoryLocal(i, TRUE)
    /\ UNCHANGED <<selectedISO, now, nextId, budget>>
    /\ UNCHANGED <<serial, userId, created, konfettiTriggeredRef, cursorMonth, dragRef>>

DelCatFail(i) ==
    /\ i \in Calls("delCat")
    /\ UNCHANGED db
    /\ DeleteCategoryLocal(i, FALSE)
    /\ UNCHANGED <<selectedISO, now, nextId, budget>>
    /\ UNCHANGED <<serial, userId, created, konfettiTriggeredRef, cursorMonth, dragRef>>

\* undoToast.undo() of a deleted category, 1868-1877
UndoClickCat ==
    /\ CanCommand
    /\ undoToast # NoToast
    /\ undoToast.kind = "cat"
    /\ toastLog' = RanOnce(toastLog, undoToast.id)
    /\ LET rec == [toast |-> undoToast.id, cat |-> undoToast.cat, ids |-> undoToast.ids,
                   cleared |-> undoToast.cleared, clearedLocal |-> undoToast.clearedLocal,
                   quiet |-> /\ pending = <<>>
                             /\ tasksByDate = undoToast.after
                             /\ db = undoToast.dbAfter,
                   updateOk |-> FALSE, before |-> tasksByDate, alone |-> TRUE]
       IN  IF undoToast.ids # {}
           THEN /\ IssueAs(undoToast.owner, [kind |-> "undoCatUpdate"] @@ rec)
                /\ UNCHANGED categories
           ELSE /\ IssueAs(undoToast.owner, [kind |-> "undoCatLoad"] @@ rec)
                /\ categories' = ensureCategory(categories, undoToast.cat)
    /\ budget' = budget - 1
    /\ UNCHANGED <<userId, created, konfettiTriggeredRef, cursorMonth, dragRef>>
    /\ hist' = NoHist
    /\ UNCHANGED <<tasksByDate, selectedISO, undoToast, timers, db, now, nextId,
                   nextToast>>

\* 1871-1875: the update has returned; restore the name, then reload
UndoCatUpdateReturns(i, ok) ==
    /\ categories' = ensureCategory(categories, pending[i].cat)
    /\ pending' = [pending EXCEPT ![i] =
            [pending[i] EXCEPT !.kind = "undoCatLoad", !.updateOk = ok,
                               !.session = userId]]
    /\ hist' = NoHist
    /\ UNCHANGED <<tasksByDate, selectedISO, undoToast, timers, now, nextId, nextToast,
                   budget, toastLog>>
    /\ UNCHANGED <<serial, userId, created, konfettiTriggeredRef, cursorMonth, dragRef>>

\* .update({ category: cat }).in("id", affectedTaskIds), 1871
UndoCatUpdateOk(i) ==
    /\ i \in Calls("undoCatUpdate")
    /\ db' = {IF r.id \in pending[i].ids THEN [r EXCEPT !.category = pending[i].cat] ELSE r :
                r \in db}
    /\ UndoCatUpdateReturns(i, TRUE)

UndoCatUpdateFail(i) ==
    /\ i \in Calls("undoCatUpdate")
    /\ UNCHANGED db
    /\ UndoCatUpdateReturns(i, FALSE)

CatUndone(rec, loaded) ==
    [ev |-> "catUndone", cat |-> rec.cat, cleared |-> rec.cleared,
     clearedLocal |-> rec.clearedLocal, quiet |-> rec.quiet /\ rec.alone,
     updateOk |-> rec.updateOk, loaded |-> loaded]

\* 1875-1876: await loadVisibleTasks(); dismissToast()
UndoCatLoadOk(i) ==
    /\ i \in Calls("undoCatLoad")
    /\ tasksByDate' \in mapTasksByDate(VisibleRows(db))
    /\ categories' = uniqueCategoriesFromTasks(tasksByDate')
    /\ dismissToast("completed")
    /\ Done(i)
    /\ hist' = CatUndone(pending[i], TRUE)
    /\ UNCHANGED <<selectedISO, db, now, nextId, budget>>
    /\ UNCHANGED <<serial, userId, created, konfettiTriggeredRef, cursorMonth, dragRef>>

UndoCatLoadFail(i) ==
    /\ i \in Calls("undoCatLoad")
    /\ dismissToast("completed")
    /\ Done(i)
    /\ hist' = CatUndone(pending[i], FALSE)
    /\ UNCHANGED <<tasksByDate, categories, selectedISO, db, now, nextId, budget>>
    /\ UNCHANGED <<serial, userId, created, konfettiTriggeredRef, cursorMonth, dragRef>>

\* ------------------------------------------------------------ renameCategory
\* 1880-1885: `from` is the name whose rename button was clicked (3237), `to`
\* the text typed; the bulk update is awaited and its error is not read
RenameCategory(from, to) ==
    /\ CanCommand
    /\ from \in Range(categories)
    /\ from # to
    /\ Issue([kind |-> "renameUpdate", from |-> from, to |-> to, updateOk |-> FALSE,
              before |-> tasksByDate, cats |-> categories, alone |-> TRUE])
    /\ budget' = budget - 1
    /\ created' = created \ {from}
    /\ hist' = NoHist
    /\ UNCHANGED <<tasksByDate, categories, selectedISO, undoToast, timers, db, now,
                   nextId, nextToast, toastLog, userId, konfettiTriggeredRef, cursorMonth, dragRef>>

\* .update({ category: to }).eq("category", from), 1885: the table after it
dbRenameCategory(table, from, to) ==
    {IF r.category = from THEN [r EXCEPT !.category = to] ELSE r : r \in table}

\* 1885-1886: the update has returned; loadVisibleTasks() is awaited next
RenameUpdateReturns(i, ok) ==
    /\ pending' = [pending EXCEPT ![i] =
            [pending[i] EXCEPT !.kind = "renameLoad", !.updateOk = ok,
                               !.session = userId]]
    /\ hist' = NoHist
    /\ UNCHANGED <<tasksByDate, categories, selectedISO, undoToast, timers, now, nextId,
                   nextToast, budget, toastLog>>
    /\ UNCHANGED <<serial, userId, created, konfettiTriggeredRef, cursorMonth, dragRef>>

RenameUpdateOk(i) ==
    /\ i \in Calls("renameUpdate")
    /\ db' = dbRenameCategory(db, pending[i].from, pending[i].to)
    /\ RenameUpdateReturns(i, TRUE)

RenameUpdateFail(i) ==
    /\ i \in Calls("renameUpdate")
    /\ UNCHANGED db
    /\ RenameUpdateReturns(i, FALSE)

Renamed(rec, loaded) ==
    [ev |-> "renamed", from |-> rec.from, to |-> rec.to, updateOk |-> rec.updateOk,
     loaded |-> loaded, before |-> rec.before, cats |-> rec.cats, alone |-> rec.alone]

\* 1886 with 1402-1407: the reload replaces the store and the category list
RenameLoadOk(i) ==
    /\ i \in Calls("renameLoad")
    /\ tasksByDate' \in mapTasksByDate(VisibleRows(db))
    /\ categories' = uniqueCategoriesFromTasks(tasksByDate')
    /\ Done(i)
    /\ hist' = Renamed(pending[i], TRUE)
    /\ UNCHANGED <<selectedISO, undoToast, timers, db, now, nextId, nextToast, budget,
                   toastLog>>
    /\ UNCHANGED <<serial, userId, created, konfettiTriggeredRef, cursorMonth, dragRef>>

RenameLoadFail(i) ==
    /\ i \in Calls("renameLoad")
    /\ Done(i)
    /\ hist' = Renamed(pending[i], FALSE)
    /\ UNCHANGED <<tasksByDate, categories, selectedISO, undoToast, timers, db, now,
                   nextId, nextToast, budget, toastLog>>
    /\ UNCHANGED <<serial, userId, created, konfettiTriggeredRef, cursorMonth, dragRef>>

\* ------------------------------------------------------------ addCategoryFromInput
\* 1830-1835: a name typed into the category input goes into the list only
AddCategoryFromInput(name) ==
    /\ budget > 0
    /\ name \notin Range(categories)
    /\ categories' = ensureCategory(categories, name)
    /\ created' = created \cup {name}
    /\ budget' = budget - 1
    /\ hist' = NoHist
    /\ UNCHANGED <<tasksByDate, selectedISO, undoToast, timers, db, pending, now, nextId,
                   nextToast, toastLog, serial, userId,
                   konfettiTriggeredRef, cursorMonth, dragRef>>

\* ------------------------------------------------------------ drag and drop
\* what dataTransfer.getData gives: nothing, text that is not JSON, or the
\* JSON text of an object whose fields may be missing ("" and 0)
NoData == [form |-> "empty", kind |-> "", taskId |-> 0, fromISO |-> 0]
Garbage == [form |-> "garbage", kind |-> "", taskId |-> 0, fromISO |-> 0]
Json(kind, taskId, fromISO) ==
    [form |-> "json", kind |-> kind, taskId |-> taskId, fromISO |-> fromISO]

RawInputs ==
    { NoData, Garbage, Json("move", 1, 1), Json("reorder", 1, 1), Json("reorder", 1, 2),
      Json("copy", 1, 1), Json("", 1, 1), Json("move", 0, 1), Json("reorder", 1, 0) }

\* 1904-1918: the ref if it is set, else the parsed transfer data
readDragPayload(ref, rawA, rawB) ==
    IF ref # NoPayload THEN ref
    ELSE LET raw == IF rawA.form # "empty" THEN rawA ELSE rawB
         IN  IF raw.form = "empty" THEN NoPayload
             ELSE IF raw.form = "garbage" THEN NoPayload
             ELSE IF raw.taskId = 0 \/ raw.fromISO = 0 \/ raw.kind = "" THEN NoPayload
             ELSE Payload(raw.kind, raw.taskId, raw.fromISO)

\* onDragStart of a task row, 2928
DragStartRow(taskId) ==
    /\ SignedIn
    /\ Has(Get(tasksByDate, selectedISO), taskId)
    /\ dragRef' = Payload("move", taskId, selectedISO)
    /\ hist' = NoHist
    /\ UNCHANGED <<tasksByDate, categories, selectedISO, undoToast, timers, db, pending,
                   now, nextId, nextToast, budget, toastLog>>
    /\ UNCHANGED <<serial, userId, created, konfettiTriggeredRef, cursorMonth>>

\* onDragStart of a row's handle, 2992-2995
DragStartHandle(taskId) ==
    /\ SignedIn
    /\ Has(Get(tasksByDate, selectedISO), taskId)
    /\ dragRef' = Payload("reorder", taskId, selectedISO)
    /\ hist' = NoHist
    /\ UNCHANGED <<tasksByDate, categories, selectedISO, undoToast, timers, db, pending,
                   now, nextId, nextToast, budget, toastLog>>
    /\ UNCHANGED <<serial, userId, created, konfettiTriggeredRef, cursorMonth>>

\* onDragEnd, 2929-2931 and 2996-2999
DragEnd ==
    /\ dragRef # NoPayload
    /\ dragRef' = NoPayload
    /\ hist' = NoHist
    /\ UNCHANGED <<tasksByDate, categories, selectedISO, undoToast, timers, db, pending,
                   now, nextId, nextToast, budget, toastLog>>
    /\ UNCHANGED <<serial, userId, created, konfettiTriggeredRef, cursorMonth>>

\* 1801-1806: moveTask returns before it changes anything
moveTaskIgnored(fromISO, toISO, taskId) ==
    /\ budget > 0
    /\ fromISO = toISO \/ ~Has(Get(tasksByDate, fromISO), taskId)
    /\ budget' = budget - 1
    /\ hist' = [ev |-> "moveIgnored", taskId |-> taskId, fromISO |-> fromISO,
                toISO |-> toISO]
    /\ UNCHANGED <<tasksByDate, categories, selectedISO, undoToast, timers, db, pending,
                   now, nextId, nextToast, toastLog>>
    /\ UNCHANGED <<serial, userId, created, konfettiTriggeredRef, cursorMonth>>

\* moveTask, 1800-1827
moveTask(fromISO, toISO, taskId) ==
    \/ moveTaskAccepted(fromISO, toISO, taskId)
    \/ moveTaskIgnored(fromISO, toISO, taskId)

\* applyReorderWithinDay, 1728-1798
applyReorderWithinDay(taskId, overId, pos) ==
    \/ applyReorderKey(taskId, overId, pos)
    \/ applyReorderRenormalize(taskId, overId, pos)
    \/ applyReorderIgnored(taskId, overId, pos)

\* `if (!p || p.kind !== "move") return` of a cell's onDrop, 2591: negated
dayDropAccepts(p) == p # NoPayload /\ p.kind = "move"

\* a row that accepts a reorder payload of any day
rowDropAcceptsAnyDay(p, iso) == p # NoPayload /\ p.kind = "reorder"

\* 2922-2923 of a row's onDrop: negated
rowDropAccepts(p, iso) == p # NoPayload /\ p.kind = "reorder" /\ p.fromISO = iso

\* the early return of an onDrop: nothing but the ref has changed
DropIgnored(where, p) ==
    /\ budget > 0
    /\ budget' = budget - 1
    /\ hist' = [ev |-> "dropIgnored", where |-> where, payload |-> p, ref |-> dragRef]
    /\ UNCHANGED <<tasksByDate, categories, selectedISO, undoToast, timers, db, pending,
                   now, nextId, nextToast, toastLog>>
    /\ UNCHANGED <<serial, userId, created, konfettiTriggeredRef, cursorMonth>>

\* onDrop of a calendar cell, 2591 (month view) and 2631
DropOnDay(toISO, rawA, rawB) ==
    LET p == readDragPayload(dragRef, rawA, rawB) IN
    /\ SignedIn
    /\ toISO \in Dates
    /\ dragRef' = NoPayload
    /\ IF dayDropAccepts(p) THEN moveTask(p.fromISO, toISO, p.taskId)
       ELSE DropIgnored("day", p)

\* onDrop of a task row of the selected day, 2918-2926; pos is dragPos
DropOnRow(overId, pos, rawA, rawB) ==
    LET p == readDragPayload(dragRef, rawA, rawB) IN
    /\ SignedIn
    /\ Has(Get(tasksByDate, selectedISO), overId)
    /\ dragRef' = NoPayload
    /\ IF rowDropAccepts(p, selectedISO) THEN applyReorderWithinDay(p.taskId, overId, pos)
       ELSE DropIgnored("row", p)

\* ------------------------------------------------------------ session
\* onAuthStateChange with no session (1375-1381, after signOut, 1464-1465),
\* then the effect of 1410-1415: the store and the list are emptied
SignOut ==
    /\ SignedIn
    /\ budget > 0
    /\ userId' = NULL
    /\ tasksByDate' = <<>>
    /\ categories' = <<>>
    /\ budget' = budget - 1
    /\ hist' = NoHist
    /\ UNCHANGED <<selectedISO, undoToast, timers, db, pending, now, nextId, nextToast,
                   toastLog, serial, created, konfettiTriggeredRef, cursorMonth, dragRef>>

\* onAuthStateChange with a session (1375-1381), then the effect of
\* 1410-1418: loadVisibleTasks() of the render that has the new userId
SignIn ==
    /\ ~SignedIn
    /\ budget > 0
    /\ CanIssue
    /\ userId' = Owner
    /\ IssueIn(Owner, Owner,
               [kind |-> "load", origin |-> "effect", before |-> tasksByDate,
                dates |-> Dates, atIssue |-> tasksByDate, catsAtIssue |-> categories,
                range |-> visibleRange(cursorMonth), alone |-> TRUE])
    /\ budget' = budget - 1
    /\ hist' = NoHist
    /\ UNCHANGED <<tasksByDate, categories, selectedISO, undoToast, timers, db, now,
                   nextId, nextToast, toastLog, created, konfettiTriggeredRef, cursorMonth, dragRef>>

\* ------------------------------------------------------------ month navigation
Months == 1..NMonths

\* setCursorMonth (2459, 2470, 2237-2238), then the effect of 1410-1419 of
\* the render that has the new visible range: loadVisibleTasks()
SetCursorMonth(m) ==
    /\ CanCommand
    /\ m \in Months /\ m # cursorMonth
    /\ cursorMonth' = m
    /\ Issue([kind |-> "load", origin |-> "effect", before |-> tasksByDate,
              dates |-> visibleRange(m), atIssue |-> tasksByDate,
              catsAtIssue |-> categories, range |-> visibleRange(m), alone |-> TRUE])
    /\ budget' = budget - 1
    /\ hist' = NoHist
    /\ UNCHANGED <<tasksByDate, categories, selectedISO, undoToast, timers, db, now,
                   nextId, nextToast, toastLog, userId, created, konfettiTriggeredRef,
                   dragRef>>

\* ------------------------------------------------------------ environment
\* a click on a calendar cell, 2587; a move that has just completed stays
\* the last thing completed
SelectDate(d) ==
    /\ SignedIn
    /\ d \in Dates /\ d # selectedISO
    /\ selectedISO' = d
    /\ hist' = IF hist.ev = "moved" THEN hist ELSE NoHist
    /\ UNCHANGED <<tasksByDate, categories, undoToast, timers, db, pending, now, nextId,
                   nextToast, budget, toastLog>>
    /\ UNCHANGED <<serial, userId, created, konfettiTriggeredRef, cursorMonth, dragRef>>

Tick ==
    /\ now < Now0 + MaxTicks
    /\ now' = now + 1
    /\ hist' = NoHist
    /\ UNCHANGED <<tasksByDate, categories, selectedISO, undoToast, timers, db, pending,
                   nextId, nextToast, budget, toastLog>>
    /\ UNCHANGED <<serial, userId, created, konfettiTriggeredRef, cursorMonth, dragRef>>

\* ------------------------------------------------------------ specification
Ids == 1..MaxTasks
Slots == 1..MaxPending

Next ==
    \/ \E id \in Ids : ToggleTask(id)
    \/ \E i \in Slots : ToggleOk(i)
    \/ \E i \in Slots : ToggleFail(i)
    \/ \E id \in Ids : DeleteTask(id)
    \/ \E i \in Slots : DeleteOk(i)
    \/ \E i \in Slots : DeleteFail(i)
    \/ \E id \in Ids, title \in EditTitles, cat \in EditCats, hp \in BOOLEAN,
          notes \in EditNotes : SaveEditTask(id, title, cat, hp, notes)
    \/ \E i \in Slots : EditOk(i)
    \/ \E i \in Slots : EditFail(i)
    \/ \E i \in Slots : LoadOk(i)
    \/ \E i \in Slots : LoadFail(i)
    \/ \E cat \in AddCats, hp \in AddPriorities, rep \in AddRepeats : AddTask(cat, hp, rep)
    \/ \E i \in Slots : AddOk(i)
    \/ \E i \in Slots : AddFail(i)
    \/ \E id, over \in Ids, pos \in {"above", "below"} : ReorderTask(id, over, pos)
    \/ \E id, over \in Ids, pos \in {"above", "below"} : ReorderRenormalize(id, over, pos)
    \/ \E i \in Slots, id \in Ids, k \in 1..MaxTasks : 
            RenormWriteOk(i, [id |-> id, sort_order |-> k * Spacing])
    \/ \E i \in Slots, id \in Ids, k \in 1..MaxTasks : 
            RenormWriteFail(i, [id |-> id, sort_order |-> k * Spacing])
    \/ \E i \in Slots : ReorderOk(i)
    \/ \E i \in Slots : ReorderFail(i)
    \/ \E id \in Ids, d \in Dates : MoveTask(id, d)
    \/ \E i \in Slots : MoveOk(i)
    \/ \E i \in Slots : MoveFail(i)
    \/ \E cat \in Cats : DeleteCategory(cat)
    \/ \E i \in Slots : DelCatOk(i)
    \/ \E i \in Slots : DelCatFail(i)
    \/ UndoClickTask
    \/ UndoClickCat
    \/ \E i \in Slots : UndoCatUpdateOk(i)
    \/ \E i \in Slots : UndoCatUpdateFail(i)
    \/ \E i \in Slots : UndoCatLoadOk(i)
    \/ \E i \in Slots : UndoCatLoadFail(i)
    \/ \E i \in Slots : UndoInsertOk(i)
    \/ \E i \in Slots : UndoInsertFail(i)
    \/ DismissClick
    \/ \E t \in 1..(nextToast - 1) : TimerFire(t)
    \/ \E d \in Dates : SelectDate(d)
    \/ Tick

Spec == Init /\ [][Next]_vars


\* The undo toast alone: the handlers that arm, invoke, dismiss or expire it,
\* with one more command than Spec allows.
InitUndo == InitWith(MaxCmds + 1)

NextUndo ==
    \/ \E id \in Ids : DeleteTask(id)
    \/ \E i \in Slots : DeleteOk(i)
    \/ \E i \in Slots : DeleteFail(i)
    \/ \E cat \in Cats : DeleteCategory(cat)
    \/ \E i \in Slots : DelCatOk(i)
    \/ \E i \in Slots : DelCatFail(i)
    \/ UndoClickTask
    \/ \E i \in Slots : UndoInsertOk(i)
    \/ \E i \in Slots : UndoInsertFail(i)
    \/ UndoClickCat
    \/ \E i \in Slots : UndoCatUpdateOk(i)
    \/ \E i \in Slots : UndoCatUpdateFail(i)
    \/ \E i \in Slots : UndoCatLoadOk(i)
    \/ \E i \in Slots : UndoCatLoadFail(i)
    \/ DismissClick
    \/ \E t \in 1..(nextToast - 1) : TimerFire(t)

SpecUndo == InitUndo /\ [][NextUndo]_vars

\* The same, with the timeout callbacks that setTimeout (1165) has scheduled
\* being run by the event loop: a live timer does fire.
SpecTimeout == SpecUndo /\ WF_vars(\E t \in timers : TimerFire(t))

\* The handlers that roll back on a failed write, alone.
NextRollback ==
    \/ \E id \in Ids : ToggleTask(id)
    \/ \E i \in Slots : ToggleOk(i)
    \/ \E i \in Slots : ToggleFail(i)
    \/ \E id \in Ids : DeleteTask(id)
    \/ \E i \in Slots : DeleteOk(i)
    \/ \E i \in Slots : DeleteFail(i)
    \/ \E id \in Ids, title \in EditTitles, cat \in EditCats, hp \in BOOLEAN,
          notes \in EditNotes : SaveEditTask(id, title, cat, hp, notes)
    \/ \E i \in Slots : EditOk(i)
    \/ \E i \in Slots : EditFail(i)
    \/ \E d \in Dates : SelectDate(d)

SpecRollback == Init /\ [][NextRollback]_vars

\* The category handlers: deleting, renaming and adding a category, the undo
\* of both deletes, and the handlers that put a category on a task.
InitCategories == InitFrom({InitRowsA, InitRowsC}, MaxCmds + 1)

NextCategories ==
    \/ \E id \in Ids : DeleteTask(id)
    \/ \E i \in Slots : DeleteOk(i)
    \/ \E i \in Slots : DeleteFail(i)
    \/ UndoClickTask
    \/ \E i \in Slots : UndoInsertOk(i)
    \/ \E i \in Slots : UndoInsertFail(i)
    \/ \E cat \in AddCats, hp \in AddPriorities, rep \in AddRepeats : AddTask(cat, hp, rep)
    \/ \E i \in Slots : AddOk(i)
    \/ \E i \in Slots : AddFail(i)
    \/ \E cat \in Cats : DeleteCategory(cat)
    \/ \E i \in Slots : DelCatOk(i)
    \/ \E i \in Slots : DelCatFail(i)
    \/ UndoClickCat
    \/ \E i \in Slots : UndoCatUpdateOk(i)
    \/ \E i \in Slots : UndoCatUpdateFail(i)
    \/ \E i \in Slots : UndoCatLoadOk(i)
    \/ \E i \in Slots : UndoCatLoadFail(i)
    \/ \E from, to \in Cats : RenameCategory(from, to)
    \/ \E i \in Slots : RenameUpdateOk(i)
    \/ \E i \in Slots : RenameUpdateFail(i)
    \/ \E i \in Slots : RenameLoadOk(i)
    \/ \E i \in Slots : RenameLoadFail(i)
    \/ \E name \in Cats : AddCategoryFromInput(name)
    \/ DismissClick
    \/ \E t \in 1..(nextToast - 1) : TimerFire(t)

SpecCategories == InitCategories /\ [][NextCategories]_vars

\* Reordering within a day, from every key assignment of ReorderTables.
InitReorder == InitFrom(ReorderTables, MaxCmds - 1)

NextReorder ==
    \/ \E id, over \in Ids, pos \in {"above", "below"} : ReorderTask(id, over, pos)
    \/ \E id, over \in Ids, pos \in {"above", "below"} : ReorderRenormalize(id, over, pos)
    \/ \E id, over \in Ids, pos \in {"above", "below"} : ReorderIgnored(id, over, pos)
    \/ \E i \in Slots, id \in Ids, k \in 1..MaxTasks :
            RenormWriteOk(i, [id |-> id, sort_order |-> k * Spacing])
    \/ \E i \in Slots, id \in Ids, k \in 1..MaxTasks :
            RenormWriteFail(i, [id |-> id, sort_order |-> k * Spacing])
    \/ \E i \in Slots : ReorderOk(i)
    \/ \E i \in Slots : ReorderFail(i)
    \/ \E i \in Slots : LoadOk(i)
    \/ \E i \in Slots : LoadFail(i)
    \/ \E d \in Dates : SelectDate(d)

SpecReorder == InitReorder /\ [][NextReorder]_vars

\* Moving tasks between days, and the reload after a failed move.
InitMove == InitFrom({InitRowsA, InitRowsD}, MaxCmds)

NextMove ==
    \/ \E id \in Ids, d \in Dates : MoveTask(id, d)
    \/ \E i \in Slots : MoveOk(i)
    \/ \E i \in Slots : MoveFail(i)
    \/ \E i \in Slots : LoadOk(i)
    \/ \E i \in Slots : LoadFail(i)
    \/ \E d \in Dates : SelectDate(d)
    \/ Tick

SpecMove == InitMove /\ [][NextMove]_vars

\* Adding tasks only, while the clock stands or advances.
InitAppend == InitWith(MaxCmds)

NextAppend ==
    \/ \E cat \in AddCats, hp \in BOOLEAN, rep \in AddRepeats : AddTask(cat, hp, rep)
    \/ \E i \in Slots : AddOk(i)
    \/ \E i \in Slots : AddFail(i)
    \/ \E d \in Dates : SelectDate(d)
    \/ Tick

SpecAppend == InitAppend /\ [][NextAppend]_vars

\* Checking tasks off on two days, with additions and failed writes.
InitKonfetti == InitFrom({InitRowsB, InitRowsD}, MaxCmds + 1)

NextKonfetti ==
    \/ \E id \in Ids : ToggleTask(id)
    \/ \E i \in Slots : ToggleOk(i)
    \/ \E i \in Slots : ToggleFail(i)
    \/ \E cat \in AddCats, hp \in AddPriorities : AddTask(cat, hp, 0)
    \/ \E i \in Slots : AddOk(i)
    \/ \E i \in Slots : AddFail(i)
    \/ \E d \in Dates : SelectDate(d)

SpecKonfetti == InitKonfetti /\ [][NextKonfetti]_vars

\* addTask with the repeat intervals that meet, cross or miss the limits of
\* 1522 (30 repetitions, 90 days).
RepeatInputs == {0, 1, 2, 3, 4, 7, 30, 45, 46, 90, 91}

InitRepeat == InitWith(MaxCmds - 1)

NextRepeat ==
    \/ \E cat \in AddCats, hp \in BOOLEAN, rep \in RepeatInputs : AddTask(cat, hp, rep)
    \/ \E i \in Slots : AddOk(i)
    \/ \E i \in Slots : AddFail(i)
    \/ \E d \in Dates : SelectDate(d)

SpecRepeat == InitRepeat /\ [][NextRepeat]_vars

\* Signing out and in while handlers are at work.
InitOwner == InitWith(MaxCmds)

NextOwner ==
    \/ \E id \in Ids : ToggleTask(id)
    \/ \E i \in Slots : ToggleOk(i)
    \/ \E i \in Slots : ToggleFail(i)
    \/ \E id, over \in Ids, pos \in {"above", "below"} : ReorderTask(id, over, pos)
    \/ \E id, over \in Ids, pos \in {"above", "below"} : ReorderRenormalize(id, over, pos)
    \/ \E i \in Slots, id \in Ids, k \in 1..MaxTasks :
            RenormWriteOk(i, [id |-> id, sort_order |-> k * Spacing])
    \/ \E i \in Slots, id \in Ids, k \in 1..MaxTasks :
            RenormWriteFail(i, [id |-> id, sort_order |-> k * Spacing])
    \/ \E i \in Slots : ReorderOk(i)
    \/ \E i \in Slots : ReorderFail(i)
    \/ \E i \in Slots : LoadOk(i)
    \/ \E i \in Slots : LoadFail(i)
    \/ SignOut
    \/ SignIn

SpecOwner == InitOwner /\ [][NextOwner]_vars

\* Month navigation while range loads are in flight: the table has rows in
\* the grid of each month.
InitRowsR ==
    InitRowsB \cup { Task(3, NDates, "t", "B", FALSE, 1, Now0 - 1, NULL, 0),
                     Task(4, NDates + 1, "t", NULL, FALSE, 1, Now0, NULL, 0) }

InitRange == InitFrom({InitRowsR}, MaxCmds + 1)

NextRange ==
    \/ \E m \in Months : SetCursorMonth(m)
    \/ \E i \in Slots : LoadOk(i)
    \/ \E i \in Slots : LoadFail(i)
    \/ \E d \in Dates : SelectDate(d)
    \/ Tick

SpecRange == InitRange /\ [][NextRange]_vars

\* Dragging tasks onto days and rows, with payloads of the page itself and
\* transfer data of other origin.
DropTables ==
    { { Task(1, 1, "t", "A", FALSE, 1, 1000, NULL, 0),
        Task(2, 1, "t", NULL, FALSE, 1, k2, NULL, 0),
        Task(3, 1, "t", "B", FALSE, 1, 2000, NULL, 0) } : k2 \in {1001, 2000} }

InitDrop == InitFrom(DropTables, MaxCmds - 1)

NextDrop ==
    \/ \E id \in Ids : DragStartRow(id)
    \/ \E id \in Ids : DragStartHandle(id)
    \/ DragEnd
    \/ \E d \in Dates, rawA, rawB \in RawInputs : DropOnDay(d, rawA, rawB)
    \/ \E over \in Ids, pos \in {"above", "below"}, rawA, rawB \in RawInputs :
            DropOnRow(over, pos, rawA, rawB)
    \/ \E i \in Slots : MoveOk(i)
    \/ \E i \in Slots : MoveFail(i)
    \/ \E i \in Slots, id \in Ids, k \in 1..MaxTasks :
            RenormWriteOk(i, [id |-> id, sort_order |-> k * Spacing])
    \/ \E i \in Slots, id \in Ids, k \in 1..MaxTasks :
            RenormWriteFail(i, [id |-> id, sort_order |-> k * Spacing])
    \/ \E i \in Slots : ReorderOk(i)
    \/ \E i \in Slots : ReorderFail(i)
    \/ \E i \in Slots : LoadOk(i)
    \/ \E i \in Slots : LoadFail(i)
    \/ \E d \in Dates : SelectDate(d)

SpecDrop == InitDrop /\ [][NextDrop]_vars

\* ------------------------------------------------------------------ claims
\* the tasks of day d, whatever their order in the list
TasksOn(m, d) == Range(Get(m, d))

Partition(m, d, done, priority) == {t \in TasksOn(m, d) : InGroup(t, done, priority)}

DistinctKeys(tasks) == \A a, b \in tasks : a.id # b.id => a.sort_order # b.sort_order

\* C1: after a reorder of a task onto another task of its partition has set
\* its key locally (no other call in flight meanwhile), the display order has
\* the moved task immediately before (above) or after (below) the reference
\* task, and the keys of the partition are pairwise distinct.
C1_ReorderPlacesAsRequested ==
    (hist.ev = "reordered" /\ hist.alone) =>
        LET day == getSortedDayTasks(tasksByDate, hist.iso)
            m == Find(day, hist.taskId)
            o == Find(day, hist.overId)
        IN  /\ m = (IF hist.pos = "above" THEN o - 1 ELSE o + 1)
            /\ DistinctKeys(Partition(tasksByDate, hist.iso, day[m].done, day[m].priority))

\* C2: when the remote write of a toggle, an edit or a delete fails and no
\* other call was in flight meanwhile, the rollback leaves the store equal to
\* the store before the mutation: same days, same lists, same fields.
C2_RollbackRestoresStore ==
    (hist.ev = "rolledBack" /\ hist.alone) => tasksByDate = hist.before

C2_Witness ==
    /\ hist.ev = "rolledBack" /\ hist.alone /\ hist.kind = "delete"
    /\ \E d \in DOMAIN hist.before : Len(hist.before[d]) = 1 /\ tasksByDate = hist.before

\* C3: when the remote write of a move or a reorder fails, the store after
\* the failure handling (the reload has returned) has, on every affected day,
\* the tasks it had before the mutation, field for field.
C3_FailedMoveOrReorderRestores ==
    (hist.ev = "failureHandled" /\ hist.alone) =>
        \A d \in hist.dates : TasksOn(tasksByDate, d) = TasksOn(hist.before, d)

\* C4: whenever no remote call is in flight, every task of the store is a row
\* of the table with the same fields, and every row of the visible range is
\* in the store.
C4_StoreMatchesBackend ==
    pending = <<>> =>
        /\ AllTasks(tasksByDate) \subseteq db
        /\ VisibleRows(db) \subseteq AllTasks(tasksByDate)

\* C5: when two toggles, edits or deletes of different tasks in disjoint
\* partitions overlapped and both have returned, the store is what running
\* them one after the other gives (the table is written only by the calls
\* that succeed, in both cases).
C5_DisjointOverlapIsSerial ==
    (pending = <<>> /\ serial.n = 2 /\ serial.ok) =>
        /\ DOMAIN tasksByDate = DOMAIN serial.store
        /\ \A d \in DOMAIN tasksByDate : TasksOn(tasksByDate, d) = TasksOn(serial.store, d)

\* C6: an undo that was replaced by a newly armed undo before it was invoked
\* never runs its closure, and its timer is no longer alive.
C6_ReplacedUndoNeverRuns ==
    \A u \in DOMAIN toastLog :
        toastLog[u].fate = "replaced" => toastLog[u].runs = 0 /\ u \notin timers

C6_Witness ==
    \E u, v \in DOMAIN toastLog :
        u < v /\ toastLog[u].fate = "replaced" /\ toastLog[v].runs > 0

\* C7: the closure of an armed undo runs at most once.
C7_UndoRunsAtMostOnce == \A u \in DOMAIN toastLog : toastLog[u].runs <= 1

\* C8: at most one undo is pending (the only live timer is that of the toast
\* in the slot), and an undo that left the slot by timeout or by dismissal
\* did not run its closure in leaving and never runs it afterwards.
C8_SingleSlotNoRunAfterExit ==
    /\ timers \subseteq {undoToast.id} \ {0}
    /\ \A u \in DOMAIN toastLog :
          toastLog[u].fate \in {"timeout", "dismissed"} =>
              toastLog[u].runs = toastLog[u].runsAtExit

C8_Witness ==
    \E u, v \in DOMAIN toastLog :
        /\ toastLog[u].fate = "timeout" /\ toastLog[v].fate = "dismissed"

\* C9: after delete (confirmed) and undo (re-insert confirmed) the store has,
\* on the day of the deleted task, a task equal to it in every field but id.
C9_UndoRestoresEveryField ==
    hist.ev = "undone" =>
        \E t \in TasksOn(tasksByDate, hist.deletedTask.date) :
            [t EXCEPT !.id = hist.deletedTask.id] = hist.deletedTask

\* C10: two distinct tasks of the same (date, done, priority) partition of the
\* store never have the same sort_order.
C10_DistinctKeysInPartition ==
    \A d \in DOMAIN tasksByDate, done \in BOOLEAN, priority \in {1, 2} :
        DistinctKeys(Partition(tasksByDate, d, done, priority))

\* the category of each task of a store, by id
CategoryOf(m) == {<<t.id, t.category>> : t \in AllTasks(m)}

\* C11: every category a task of the store has, other than null, is a name of
\* the category list.
C11_TaskCategoriesAreListed ==
    \A t \in AllTasks(tasksByDate) : t.category # NULL => t.category \in Range(categories)

\* C12: after a rename of `from` onto a name `to` that was already in the
\* category list (update and reload both succeeded, nothing else in flight
\* meanwhile), no task has `from`, every task of the store that had `from` or
\* `to` has `to`, and the list has `to` exactly once and `from` not at all.
C12_RenameOntoExistingMerges ==
    (/\ hist.ev = "renamed" /\ hist.alone /\ hist.updateOk /\ hist.loaded
     /\ hist.to \in Range(hist.cats)) =>
        /\ \A t \in AllTasks(tasksByDate) : t.category # hist.from
        /\ \A b \in AllTasks(hist.before), t \in AllTasks(tasksByDate) :
              (b.id = t.id /\ b.category \in {hist.from, hist.to}) => t.category = hist.to
        /\ Cardinality({k \in 1..Len(categories) : categories[k] = hist.to}) = 1
        /\ hist.from \notin Range(categories)

\* C13: after the undo of a category delete has run (nothing happened between
\* the delete and the undo, the undo's update and reload both succeeded), every
\* row the delete cleared in the table and every task it cleared in the store
\* has the category again, no other task of the store has it, and the name is
\* in the category list.
C13_UndoRestoresClearedCategory ==
    (hist.ev = "catUndone" /\ hist.quiet /\ hist.updateOk /\ hist.loaded) =>
        /\ \A r \in db : r.id \in hist.cleared => r.category = hist.cat
        /\ \A t \in AllTasks(tasksByDate) :
              t.category = hist.cat <=> t.id \in hist.clearedLocal
        /\ hist.cat \in Range(categories)

\* C14: the cascade of a category delete keeps every day and every task of
\* the store, sets the category of the tasks that had the name to null and
\* changes nothing else, and removes the name from the list; the table keeps
\* every row, and its rows change in the category only (and only rows that
\* had the name, when the update succeeds).
C14_DeleteCategoryClearsOnly ==
    hist.ev = "catDeleted" =>
        /\ DOMAIN tasksByDate = DOMAIN hist.prev
        /\ \A d \in DOMAIN hist.prev :
              /\ Len(tasksByDate[d]) = Len(hist.prev[d])
              /\ \A k \in 1..Len(hist.prev[d]) :
                    tasksByDate[d][k] =
                        IF hist.prev[d][k].category = hist.cat
                        THEN [hist.prev[d][k] EXCEPT !.category = NULL]
                        ELSE hist.prev[d][k]
        /\ categories = SelectSeq(hist.prevCats, LAMBDA c : c # hist.cat)
        /\ Cardinality(db) = Cardinality(hist.prevDb)
        /\ \A q \in hist.prevDb :
              (IF hist.ok /\ q.category = hist.cat THEN [q EXCEPT !.category = NULL] ELSE q)
                  \in db

C14_Witness ==
    /\ hist.ev = "catDeleted" /\ hist.ok
    /\ \E t, u \in AllTasks(hist.prev) :
          t.category = hist.cat /\ u.category \notin {hist.cat, NULL}
    /\ \E q \in hist.prevDb : q.category = hist.cat /\ q.date \notin Dates

\* C15: when the bulk update of a category delete or of a rename fails (and
\* nothing else was in flight meanwhile), the category list and the category
\* of every task of the store are what they were when the handler started.
C15_FailedCascadeLeavesAsBefore ==
    (/\ hist.ev \in {"catDeleted", "renamed"} /\ hist.alone
     /\ ~(IF hist.ev = "renamed" THEN hist.updateOk ELSE hist.ok)) =>
        /\ categories = hist.cats
        /\ CategoryOf(tasksByDate) = CategoryOf(hist.before)

\* the cases in which a reorder request must do nothing
NoOpCase(taskId, overId) ==
    LET day == Get(tasksByDate, selectedISO) IN
    \/ taskId = overId
    \/ \A k \in 1..Len(day) : day[k].id # taskId
    \/ \A k \in 1..Len(day) : day[k].id # overId
    \/ \E j, k \in 1..Len(day) :
          /\ day[j].id = taskId /\ day[k].id = overId
          /\ (day[j].done # day[k].done \/ day[j].priority # day[k].priority)

\* C16: a reorder request with equal ids, with tasks of different (done,
\* priority) partitions or with a task that is not on the selected day is never
\* accepted, and a request that is not accepted leaves the store, the calls in
\* flight and the table as they were.
C16_RejectedReorderIsNoOp ==
    /\ \A id, over \in Ids :
          NoOpCase(id, over) => ~reorderAccepted(tasksByDate, selectedISO, id, over)
    /\ hist.ev = "reorderIgnored" =>
          /\ tasksByDate = hist.before
          /\ pending = hist.pendingBefore
          /\ db = hist.dbBefore

C16_Witness ==
    /\ hist.ev = "reorderIgnored" /\ hist.taskId # hist.overId
    /\ \E t, o \in TasksOn(tasksByDate, selectedISO) :
          t.id = hist.taskId /\ o.id = hist.overId /\ t.done # o.done

IdsOf(list) == [k \in 1..Len(list) |-> list[k].id]

\* C17: renormalizing a partition leaves the display order of the day as it
\* was, changes nothing but the sort_order of the tasks of that partition,
\* which become 1000, 2000, ... in display order, and doing it again gives the
\* same keys.
C17_RenormalizeKeepsOrder ==
    hist.ev = "renormalized" =>
        LET b == hist.before
            g == hist.group
            was == getSortedDayTasks(b, hist.iso)
            grp == SelectSeq(was, LAMBDA t : t.done = g.done /\ t.priority = g.priority)
            rank(id) == CHOOSE k \in 1..Len(grp) : grp[k].id = id
        IN  /\ IdsOf(getSortedDayTasks(tasksByDate, hist.iso)) = IdsOf(was)
            /\ DOMAIN tasksByDate = DOMAIN b
            /\ \A d \in DOMAIN b : d # hist.iso => tasksByDate[d] = b[d]
            /\ Len(tasksByDate[hist.iso]) = Len(b[hist.iso])
            /\ \A k \in 1..Len(b[hist.iso]) :
                  LET t == b[hist.iso][k] IN
                  tasksByDate[hist.iso][k] =
                      IF t.done = g.done /\ t.priority = g.priority
                      THEN [t EXCEPT !.sort_order = rank(t.id) * 1000]
                      ELSE t
            /\ renormalizeUpdates(tasksByDate, hist.iso, g.done, g.priority)
                  = renormalizeUpdates(b, hist.iso, g.done, g.priority)

C17_Witness ==
    /\ hist.ev = "renormalized"
    /\ \E t, u \in TasksOn(hist.before, hist.iso) :
          /\ t.id # u.id /\ t.sort_order = u.sort_order
          /\ t.done = hist.group.done /\ u.done = hist.group.done
    /\ \E t \in TasksOn(hist.before, hist.iso) : t.done # hist.group.done
    /\ tasksByDate # hist.before

\* C18: after a reorder that renormalized (nothing else in flight meanwhile)
\* the key of the moved task lies strictly between the renormalized keys of
\* the tasks before and after the insertion point.
C18_KeyBetweenRenormalizedNeighbours ==
    (hist.ev = "reordered" /\ hist.renorm /\ hist.alone) =>
        LET day == getSortedDayTasks(tasksByDate, hist.iso)
            moved == CHOOSE t \in TasksOn(tasksByDate, hist.iso) : t.id = hist.taskId
            others == SelectSeq(day, LAMBDA t : /\ t.id # hist.taskId
                                                /\ t.done = moved.done
                                                /\ t.priority = moved.priority)
            o == CHOOSE k \in 1..Len(others) : others[k].id = hist.overId
            p == IF hist.pos = "above" THEN o - 1 ELSE o
        IN  /\ \A k \in 1..Len(others) : others[k].sort_order = k * 1000
            /\ p >= 1 => others[p].sort_order < moved.sort_order
            /\ p + 1 <= Len(others) => moved.sort_order < others[p + 1].sort_order

\* the step just taken completed the second move of a round trip: the same
\* task went from day A to day B and back, both writes succeeded, and nothing
\* else was in flight or happened in between
RoundTrip ==
    /\ hist.ev = "moved" /\ hist.alone
    /\ hist.first.ev = "moved" /\ hist.first.alone
    /\ hist.first.taskId = hist.taskId
    /\ hist.first.fromISO = hist.toISO /\ hist.first.toISO = hist.fromISO

Others(m, d, id) == {t \in TasksOn(m, d) : t.id # id}

\* C19: after a round trip of a task from day A to day B and back, the task is
\* once in the list of A and in no other list, has date A and the done and
\* priority it had, and every other task of A and of B is what it was.
C19_MoveRoundTrip ==
    RoundTrip =>
        LET A == hist.toISO
            B == hist.fromISO
            s0 == hist.first.before
            orig == CHOOSE t \in TasksOn(s0, A) : t.id = hist.taskId
            listA == Get(tasksByDate, A)
        IN  /\ Cardinality({k \in 1..Len(listA) : listA[k].id = hist.taskId}) = 1
            /\ \A d \in DOMAIN tasksByDate \ {A} :
                  \A t \in TasksOn(tasksByDate, d) : t.id # hist.taskId
            /\ \A t \in TasksOn(tasksByDate, A) :
                  t.id = hist.taskId =>
                      t.date = A /\ t.done = orig.done /\ t.priority = orig.priority
            /\ Others(tasksByDate, A, hist.taskId) = Others(s0, A, hist.taskId)
            /\ Others(tasksByDate, B, hist.taskId) = Others(s0, B, hist.taskId)

C19_Witness ==
    /\ RoundTrip
    /\ Others(tasksByDate, hist.toISO, hist.taskId) # {}
    /\ Others(tasksByDate, hist.fromISO, hist.taskId) # {}

\* C20: when a reload fails (nothing else in flight meanwhile), the store and
\* the category list are what they were when the reload was issued.
C20_FailedLoadKeepsStore ==
    (hist.ev = "failureHandled" /\ ~hist.loaded /\ hist.alone) =>
        tasksByDate = hist.atIssue /\ categories = hist.catsAtIssue

C20_Witness ==
    /\ hist.ev = "failureHandled" /\ ~hist.loaded /\ hist.alone
    /\ tasksByDate = hist.atIssue /\ tasksByDate # hist.before

\* C21: every remote call in flight was made with the user id of the owner
\* who was signed in when it was made, and none was made while nobody was
\* signed in.
C21_CallsCarrySignedInOwner ==
    \A i \in 1..Len(pending) :
        pending[i].session # NULL /\ pending[i].owner = pending[i].session

\* C22: a name that the user put into the category list by hand, that no
\* task uses and that has not itself been renamed or deleted since, is in
\* the category list.
C22_CreatedCategoryStays ==
    \A c \in created :
        (\A t \in AllTasks(tasksByDate) \cup db : t.category # c)
            => c \in Range(categories)

\* C23: when two toggles of one task overlap (the second starts before the
\* first has returned), the writes reach the table in the order they were
\* issued and both have returned, whatever each returned, the task's done
\* flag in the store equals its done flag in the table.
TwoTogglesReturned ==
    \/ hist.ev = "toggled"
    \/ hist.ev = "rolledBack" /\ hist.kind = "toggle" /\ hist.twice

C23_OverlappingTogglesConverge ==
    TwoTogglesReturned =>
        \A t \in Range(Get(tasksByDate, hist.iso)) :
            t.id = hist.taskId => \E r \in db : r.id = t.id /\ r.done = t.done

\* C24: for each kind of mutation (toggle, edit, delete, move, reorder,
\* category rename, category delete), at the step in which a command issues
\* the mutation's remote call the store already shows the mutation.
Applied(rec, store) ==
    LET day == Range(Get(store, rec.iso))
    IN  CASE rec.kind = "toggle" ->
                \E t \in day : t.id = rec.taskId /\ t.done = rec.nextDone
          [] rec.kind = "edit" ->
                \E t \in day : /\ t.id = rec.taskId
                                /\ t.title = rec.title
                                /\ t.category = rec.category
                                /\ t.priority = rec.priority
                                /\ t.notes = rec.notes
          [] rec.kind = "delete" -> \A t \in day : t.id # rec.taskId
          [] rec.kind = "move" ->
                \E t \in Range(Get(store, rec.toISO)) : t.id = rec.taskId
          [] rec.kind = "reorder" ->
                \E t \in day : t.id = rec.taskId /\ t.sort_order = rec.newOrder
          [] rec.kind = "renorm" ->
                \A u \in rec.writes :
                    \E t \in day : t.id = u.id /\ t.sort_order = u.sort_order
          [] rec.kind = "renameUpdate" ->
                \A t \in AllTasks(store) : t.category # rec.from
          [] rec.kind = "delCat" ->
                \A t \in AllTasks(store) : t.category # rec.cat
          [] OTHER -> TRUE

C24_LocalApplyBeforeRemoteCall ==
    [][Len(pending') = Len(pending) + 1
           => Applied(pending'[Len(pending')], tasksByDate')]_vars

\* C25: in a reorder that renormalizes, the store gets all the new keys of
\* the partition in the one local step that precedes the per-task writes
\* (at that step every write is still outstanding and the table is
\* untouched), and while the writes are in flight the store shows every
\* renormalized key, never only some of them.
RenormKeys(rec) ==
    LET day == getSortedDayTasks(rec.before, rec.iso)
        moved == day[Find(day, rec.taskId)]
    IN  renormalizeUpdates(rec.before, rec.iso, moved.done, moved.priority)

ShowsKeys(store, iso, updates) ==
    \A u \in updates :
        \E t \in Range(Get(store, iso)) : t.id = u.id /\ t.sort_order = u.sort_order

C25_RenormalizedInOneStep ==
    /\ \A i \in 1..Len(pending) :
          (pending[i].kind = "renorm" /\ pending[i].alone)
              => ShowsKeys(tasksByDate, pending[i].iso, RenormKeys(pending[i]))
    /\ hist.ev = "renormalized" =>
          LET rec == pending[Len(pending)]
          IN  /\ rec.kind = "renorm"
              /\ rec.writes = RenormKeys(rec)
              /\ (rec.alone /\ AllTasks(rec.before) \subseteq db)
                    => \A t \in Range(Get(rec.before, rec.iso)) : t \in db

C25_Witness ==
    \E i \in 1..Len(pending) :
        /\ pending[i].kind = "renorm"
        /\ pending[i].alone
        /\ pending[i].writes # RenormKeys(pending[i])
        /\ pending[i].writes # {}
        /\ Cardinality({u \in RenormKeys(pending[i]) :
                \E t \in Range(Get(pending[i].before, pending[i].iso)) :
                    t.id = u.id /\ t.sort_order # u.sort_order}) >= 2

\* the tasks of the moved task's partition without the moved task, in display
\* order, and the index of the one the moved task is put after (0: none)
Rest(h) ==
    LET moved == CHOOSE t \in TasksOn(tasksByDate, h.iso) : t.id = h.taskId
    IN  SelectSeq(getSortedDayTasks(tasksByDate, h.iso),
                  LAMBDA t : t.id # h.taskId /\ t.done = moved.done
                                            /\ t.priority = moved.priority)

PredIndex(h) ==
    LET o == CHOOSE k \in 1..Len(Rest(h)) : Rest(h)[k].id = h.overId
    IN  IF h.pos = "above" THEN o - 1 ELSE o

\* C26: after a reorder that did not renormalize, the moved task's key is
\* 1000 if its partition holds no other task, the predecessor's key + 1000 if
\* nothing follows the insertion point, the successor's key - 1000 if nothing
\* precedes it, and floor((predecessor + successor) / 2) otherwise; in that
\* last case the two keys differ by more than 1 and the new key lies strictly
\* between them.
C26_KeyWithoutRenormalize ==
    (hist.ev = "reordered" /\ ~hist.renorm) =>
        LET key == (CHOOSE t \in TasksOn(tasksByDate, hist.iso) : t.id = hist.taskId).sort_order
            rest == Rest(hist)
            p == PredIndex(hist)
        IN  IF rest = <<>> THEN key = 1000
            ELSE IF p + 1 > Len(rest) THEN key = rest[p].sort_order + 1000
            ELSE IF p < 1 THEN key = rest[p + 1].sort_order - 1000
            ELSE /\ key = (rest[p].sort_order + rest[p + 1].sort_order) \div 2
                 /\ rest[p + 1].sort_order - rest[p].sort_order > 1
                 /\ rest[p].sort_order < key
                 /\ key < rest[p + 1].sort_order

C26_Witness ==
    /\ hist.ev = "reordered" /\ ~hist.renorm
    /\ PredIndex(hist) >= 1 /\ PredIndex(hist) + 1 <= Len(Rest(hist))
    /\ (Rest(hist)[PredIndex(hist)].sort_order
          + Rest(hist)[PredIndex(hist) + 1].sort_order) % 2 = 1

\* C27: when tasks are only ever added, one addTask after the other under a
\* clock that never goes back, every task an addTask creates has a
\* sort_order greater than that of every task that was already in its
\* (date, done, priority) partition.
C27_AddedKeysIncrease ==
    (hist.ev = "added" /\ hist.alone) =>
        \A r \in hist.rows, e \in db \ hist.rows :
            (e.date = r.date /\ e.done = r.done /\ e.priority = r.priority)
                => e.sort_order < r.sort_order

\* C28: an undo in the slot that has not left it (by its closure finishing,
\* by dismissal or by being replaced) holds the one live timer, so the
\* timeout discards it and the slot becomes empty in the end; no timer of
\* an undo that has left the slot is alive to empty the slot of a later one.
C28_TimeoutEmptiesSlot ==
    /\ [](\A u \in DOMAIN toastLog :
            toastLog[u].fate = "armed" => undoToast.id = u /\ timers = {u})
    /\ [](\A u \in DOMAIN toastLog : toastLog[u].fate # "armed" => u \notin timers)
    /\ (undoToast # NoToast) ~> (undoToast = NoToast)

C28_Witness ==
    /\ undoToast = NoToast
    /\ \E u, v \in DOMAIN toastLog :
          /\ u < v
          /\ toastLog[u].fate \in {"replaced", "dismissed"}
          /\ toastLog[v].fate = "timeout"

\* C29: a toggle that makes every task of its day done (the day was
\* incomplete until then, whether by an uncheck, an added task or a
\* rollback) fires the celebration; the celebration does not fire while the
\* day's flag is set; and a toggle leaves the flag of every other day as it
\* was.
Flag(ref, d) == ref = <<d>>

C29_CelebrationPerDay ==
    hist.ev = "toggleIssued" =>
        /\ (hist.nextDone /\ \A t \in TasksOn(tasksByDate, hist.iso) : t.done)
              => hist.konfetti
        /\ hist.konfetti => ~Flag(hist.refBefore, hist.iso)
        /\ \A d \in Dates \ {hist.iso} :
              Flag(konfettiTriggeredRef, d) <=> Flag(hist.refBefore, d)

\* the lists that hold the same task records as list s, in any order
Reorderings(s) ==
    {p \in [1..Len(s) -> Range(s)] : \A i, j \in 1..Len(s) : i # j => p[i] # p[j]}

\* C30: the display order of a day depends on the task records alone: every
\* list holding the records of a day's list, in whatever order, is displayed
\* in the same order.
C30_DisplayOrderFromFieldsAlone ==
    \A d \in DOMAIN tasksByDate :
        \A p \in Reorderings(tasksByDate[d]) :
            StableSort(p) = getSortedDayTasks(tasksByDate, d)

\* the tasks whose record differs between two stores, by id
ChangedIds(old, new) ==
    {t.id : t \in {x \in AllTasks(new) : x \notin AllTasks(old)}}

\* two stores hold the same lists but for the sort_order of their tasks
SameButKeys(old, new) ==
    /\ DOMAIN new = DOMAIN old
    /\ \A d \in DOMAIN old :
          /\ Len(new[d]) = Len(old[d])
          /\ \A k \in 1..Len(old[d]) :
                new[d][k] = [old[d][k] EXCEPT !.sort_order = new[d][k].sort_order]

\* C31: a step of a reorder (the key set without renormalizing, the
\* renormalization, the key set after it) changes nothing in the store but
\* sort_order, and only of tasks of the moved task's (date, done, priority)
\* partition; unless it is the renormalization, it changes the moved task
\* only. The table, too, changes in sort_order only.
C31_ReorderChangesKeysOnly ==
    [][/\ hist'.ev \in {"reordered", "renormalized"} =>
            /\ SameButKeys(tasksByDate, tasksByDate')
            /\ \A t \in TasksOn(tasksByDate, hist'.iso) :
                  t.id \in ChangedIds(tasksByDate, tasksByDate') =>
                      IF hist'.ev = "renormalized"
                      THEN t.done = hist'.group.done /\ t.priority = hist'.group.priority
                      ELSE t.id = hist'.taskId
            /\ \A t \in AllTasks(tasksByDate) :
                  t.id \in ChangedIds(tasksByDate, tasksByDate') => t.date = hist'.iso
       /\ \A r \in db' : \E q \in db : r = [q EXCEPT !.sort_order = r.sort_order]]_vars

C31_Witness ==
    /\ hist.ev = "reordered" /\ ~hist.renorm
    /\ \E t, u \in TasksOn(tasksByDate, hist.iso) :
          /\ t.id = hist.taskId
          /\ u.done # t.done
          /\ \E r \in db : r.id = t.id /\ r.sort_order # t.sort_order

\* the rows addTask is to create, without id and sort_order
RepeatCount(n) == IF n > 0 THEN Min(90 \div n, 30) ELSE 0

Draft(r) == [date |-> r.date, title |-> r.title, category |-> r.category,
             done |-> r.done, priority |-> r.priority]

C33_OneBucketPerTask ==
    /\ \A d, e \in DOMAIN tasksByDate :
          \A i \in 1..Len(tasksByDate[d]), j \in 1..Len(tasksByDate[e]) :
              tasksByDate[d][i].id = tasksByDate[e][j].id => d = e /\ i = j
    /\ \A d \in DOMAIN tasksByDate : \A t \in TasksOn(tasksByDate, d) : t.date = d

\* the ids whose delete the table has carried out: ids it has given out and
\* holds no longer (an undo re-inserts under a new id)
ConfirmedDeleted == {id \in 1..(nextId - 1) : \A r \in db : r.id # id}

\* C34: a task whose remote delete has been confirmed is not in the store,
\* whatever rollback of a failed delete, edit or toggle of another task of
\* its day happens.
C34_DeletedStaysDeleted ==
    \A t \in AllTasks(tasksByDate) : t.id \notin ConfirmedDeleted

\* C35: the end of an undo's compensating action empties the slot of that
\* undo only: an undo armed meanwhile, whose closure never ran, is not
\* removed by it and leaves the slot by its own timeout, dismissal or
\* invocation.
C35_CompletionEmptiesOwnSlotOnly ==
    \A u \in DOMAIN toastLog :
        toastLog[u].fate = "completed" => toastLog[u].runs > 0

\* C36: when the response of a range load has been applied and no load is
\* in flight any more, the store holds the table's rows of the range the
\* calendar shows now, in whatever order the responses of overlapping loads
\* arrived.
C36_StoreShowsVisibleRange ==
    (hist.ev = "failureHandled" /\ hist.kind = "effect" /\ hist.loaded
        /\ Calls("load") = {})
    => AllTasks(tasksByDate) = RangeRows(db, visibleRange(cursorMonth))

\* C37: the store holds tasks of the signed-in owner only; while nobody is
\* signed in it holds no task, also when the response of a call made before
\* the sign-out arrives after it.
C37_StoreOfSignedInOwner ==
    ~SignedIn => AllTasks(tasksByDate) = {}

\* list a is the beginning of list b
IsPrefix(a, b) == Len(a) <= Len(b) /\ \A k \in 1..Len(a) : b[k] = a[k]

\* C38: addTask changes the store only when its insert has succeeded: the
\* call (which is then pending) and a failed insert leave the store as it
\* was; a successful insert appends the rows the backend returned, and only
\* them, each at the end of the list of its own date, and leaves every task
\* that was in the store as it was.
C38_AddAppendsReturnedRows ==
    [][/\ hist'.ev # "added" => tasksByDate' = tasksByDate
       /\ hist'.ev = "added" =>
            /\ hist'.rows = db' \ db
            /\ \A d \in DOMAIN tasksByDate' :
                  /\ IsPrefix(Get(tasksByDate, d), tasksByDate'[d])
                  /\ \A k \in (Len(Get(tasksByDate, d)) + 1)..Len(tasksByDate'[d]) :
                        tasksByDate'[d][k] \in hist'.rows /\ tasksByDate'[d][k].date = d
            /\ DOMAIN tasksByDate \subseteq DOMAIN tasksByDate'
            /\ \A r \in hist'.rows :
                  Cardinality({k \in 1..Len(Get(tasksByDate', r.date)) :
                                  /\ k > Len(Get(tasksByDate, r.date))
                                  /\ tasksByDate'[r.date][k] = r}) = 1]_vars

\* an insert of two rows (a repeating task) has succeeded while the store
\* already held tasks, after having been pending
C38_Witness ==
    /\ hist.ev = "added" /\ Cardinality(hist.rows) = 2
    /\ AllTasks(hist.before) # {}
    /\ \A r \in hist.rows : r \in Range(Get(tasksByDate, r.date))

\* C39: a drop applies the operation of its payload's kind only: a drop on
\* a calendar day changes the store only if the payload is a move, a drop on
\* a task row only if the payload is a reorder that started on the selected
\* day; with any other payload, or none that can be read, the store stays as
\* it was; and after every drop no drag payload is pending.
C39_DropAppliesMatchingKind ==
    [][budget' # budget =>      \* the step is a drop: no other command is given
        /\ dragRef' = NoPayload
        /\ tasksByDate' # tasksByDate =>
            /\ \A d \in Dates, rawA, rawB \in RawInputs :
                  DropOnDay(d, rawA, rawB)
                      => readDragPayload(dragRef, rawA, rawB).kind = "move"
            /\ \A over \in Ids, pos \in {"above", "below"}, rawA, rawB \in RawInputs :
                  DropOnRow(over, pos, rawA, rawB)
                      => /\ readDragPayload(dragRef, rawA, rawB).kind = "reorder"
                         /\ readDragPayload(dragRef, rawA, rawB).fromISO = selectedISO]_vars

\* transfer data of a reorder that started on another day has been dropped
\* on a row of the selected day
C39_Witness ==
    /\ hist.ev = "dropIgnored" /\ hist.where = "row"
    /\ hist.payload.kind = "reorder" /\ hist.payload.fromISO # selectedISO
    /\ Has(Get(tasksByDate, selectedISO), hist.payload.taskId)
    /\ dragRef = NoPayload

====
